---- MODULE Spec2Model ----
(***************************************************************************)
(* Model of the Group composite shape (src/src/shapes/group.class.ts) and  *)
(* of the ancestry mixin defined at the end of the same file.              *)
(*                                                                         *)
(* Transforms are restricted to translations (angle, scale and skew are    *)
(* the identity), so a transform matrix is the translation by the center   *)
(* of the object and every coordinate is an integer.  A group's stroke     *)
(* width is 0 (line 41); a leaf's width and height stand for its           *)
(* transformed dimensions.                                                 *)
(***************************************************************************)
EXTENDS Integers, Sequences, FiniteSets, TLC

\* ------------------------------------------------------------------ universe
Groups == {"g1", "g2", "g3"}
Leaves == {"r1", "r2"}
Nodes  == Groups \cup Leaves
GroupOrder == <<"g1", "g2", "g3">>

None   == "none"      \* the undefined reference
Canvas == "canvas"    \* the one canvas container

\* bounds of the exploration
MaxOps      == 3      \* calls made on the API in one behaviour from the empty scene
MaxChainOps == 1      \* calls made on the API in one behaviour from the nested scene
MaxArgs     == 2      \* length of an argument list
MaxGeometryOps == 3   \* calls made on the API in one behaviour of the geometry scene
MaxWatchOps == 3      \* calls made on the API in one behaviour of the watched scene
MaxDisposeOps == 3    \* calls made on the API in one behaviour with dispose calls
MaxEmptyOps == 3      \* calls made on the API in one behaviour with empty groups
MaxExportOps == 3     \* calls made on the API in one behaviour of the serialized scene

LayoutModes == {"fit-content", "fit-content-lazy", "fixed", "clip-path", "svg"}

\* ------------------------------------------------------------------ numbers
\* A JavaScript number is an integer or the undefined/NaN value.
NaN == 0 - (10 ^ 6)

IsNum(a)   == a # NaN
NAdd(a, b) == IF a = NaN \/ b = NaN THEN NaN ELSE a + b
NSub(a, b) == IF a = NaN \/ b = NaN THEN NaN ELSE a - b
NMul(a, b) == IF a = NaN \/ b = NaN THEN NaN ELSE a * b
NNeg(a)    == IF a = NaN THEN NaN ELSE 0 - a
NHalf(a)   == IF a = NaN THEN NaN ELSE a \div 2
NMin(a, b) == IF a = NaN \/ b = NaN THEN NaN ELSE IF a < b THEN a ELSE b
NMax(a, b) == IF a = NaN \/ b = NaN THEN NaN ELSE IF a > b THEN a ELSE b
OrZero(a)  == IF a = NaN THEN 0 ELSE a            \* a || 0

Pt(px, py)  == [x |-> px, y |-> py]
PAdd(p, q)  == Pt(NAdd(p.x, q.x), NAdd(p.y, q.y))
PSub(p, q)  == Pt(NSub(p.x, q.x), NSub(p.y, q.y))
PHalf(p)    == Pt(NHalf(p.x), NHalf(p.y))
PEq(p, q)   == IsNum(p.x) /\ IsNum(p.y) /\ p.x = q.x /\ p.y = q.y
Zero        == Pt(0, 0)

\* ------------------------------------------------------------------ sequences
IndexOf(seq, e) ==
  IF \E i \in 1..Len(seq) : seq[i] = e
  THEN CHOOSE i \in 1..Len(seq) : seq[i] = e /\ \A j \in 1..(i - 1) : seq[j] # e
  ELSE 0

Contains(seq, e) == \E i \in 1..Len(seq) : seq[i] = e

RemoveAt(seq, i) == SubSeq(seq, 1, i - 1) \o SubSeq(seq, i + 1, Len(seq))

Range(seq) == {seq[i] : i \in 1..Len(seq)}

NoDup(seq) == \A i, j \in 1..Len(seq) : seq[i] = seq[j] => i = j

SeqsUpTo(S, n) == UNION {[1..k -> S] : k \in 0..n}

\* ------------------------------------------------------------------ state
VARIABLES
  objects,          \* group -> its child sequence (_objects)
  group,            \* node  -> parent group or None
  canvas,           \* node  -> Canvas or None
  built,            \* group -> the constructor has run
  layout,           \* group -> layout mode
  firstLayoutDone,  \* group -> _firstLayoutDone
  left, top,        \* node  -> position of the origin corner in the parent plane
  width, height,    \* node  -> dimensions
  origin,           \* node  -> twice the resolved origin (-1 left/top, 0 center, 1 right/bottom)
  clipPath,         \* group -> clip path record or NoClip
  interactive,      \* group -> interactive flag
  watch,            \* group -> node -> subscriptions of the group's handlers on the node
  activeObjects,    \* group -> its active-object list (_activeObjects)
  activeObject,     \* what canvas.getActiveObject() returns: a node or None
  canvasObjects,    \* the object list of the canvas (_objects of the canvas)
  excludeFromExport,    \* node -> excludeFromExport flag
  includeDefaultValues, \* node -> includeDefaultValues setting
  log,              \* what the last call did, in order
  ret,              \* what the last call returned
  call,             \* the last call: operation, receiver and arguments
  before,           \* the scene the last call was made in, its own call and return value included
  ops               \* number of calls made so far

vars == <<objects, group, canvas, built, layout, firstLayoutDone,
          left, top, width, height, origin, clipPath, interactive, watch,
          activeObjects, activeObject, canvasObjects, excludeFromExport,
          includeDefaultValues, log, ret, call, before, ops>>

\* the program state as one value, threaded through the operators below
Cur == [objects |-> objects, group |-> group, canvas |-> canvas, built |-> built,
        layout |-> layout, firstLayoutDone |-> firstLayoutDone,
        left |-> left, top |-> top, width |-> width, height |-> height,
        origin |-> origin, clipPath |-> clipPath, interactive |-> interactive,
        watch |-> watch, activeObjects |-> activeObjects, activeObject |-> activeObject,
        canvasObjects |-> canvasObjects,
        excludeFromExport |-> excludeFromExport,
        includeDefaultValues |-> includeDefaultValues,
        log |-> <<>>, ret |-> <<>>]

\* what a later call can still tell about the scene it was made in
Scene(s, c, r) ==
  [call |-> c, ret |-> r, objects |-> s.objects, group |-> s.group, layout |-> s.layout,
   left |-> s.left, top |-> s.top, width |-> s.width, height |-> s.height,
   origin |-> s.origin, interactive |-> s.interactive]

Commit(s, c) ==
  /\ call' = c
  /\ before' = Scene(Cur, call, ret)
  /\ objects' = s.objects
  /\ group' = s.group
  /\ canvas' = s.canvas
  /\ built' = s.built
  /\ layout' = s.layout
  /\ firstLayoutDone' = s.firstLayoutDone
  /\ left' = s.left
  /\ top' = s.top
  /\ width' = s.width
  /\ height' = s.height
  /\ origin' = s.origin
  /\ clipPath' = s.clipPath
  /\ interactive' = s.interactive
  /\ watch' = s.watch
  /\ activeObjects' = s.activeObjects
  /\ activeObject' = s.activeObject
  /\ canvasObjects' = s.canvasObjects
  /\ excludeFromExport' = s.excludeFromExport
  /\ includeDefaultValues' = s.includeDefaultValues
  /\ log' = s.log
  /\ ret' = s.ret
  /\ ops' = ops + 1

\* ------------------------------------------------------------------ log
NoResult == [ok |-> FALSE, centerX |-> NaN, centerY |-> NaN, width |-> NaN, height |-> NaN,
             correctionX |-> NaN, correctionY |-> NaN, offsetX |-> NaN, offsetY |-> NaN]

Event(kind, g, n, type, targets, path, result) ==
  [ev |-> kind, g |-> g, n |-> n, type |-> type, targets |-> targets,
   path |-> path, result |-> result]

\* every node of g's child sequence refers to g as its group
ChildrenSynced(s, g) == \A i \in 1..Len(s.objects[g]) : s.group[s.objects[g][i]] = g

\* what an observer sees of group g at one moment
Snap(s, g) ==
  [left |-> s.left[g], top |-> s.top[g], width |-> s.width[g], height |-> s.height[g],
   children |-> s.objects[g],
   positions |-> [i \in 1..Len(s.objects[g]) |->
                    Pt(s.left[s.objects[g][i]], s.top[s.objects[g][i]])],
   layout |-> s.layout[g], hasClipPath |-> s.clipPath[g].present,
   firstLayoutDone |-> s.firstLayoutDone[g], group |-> s.group[g],
   synced |-> ChildrenSynced(s, g)]

NoSnap ==
  [left |-> 0, top |-> 0, width |-> 0, height |-> 0, children |-> <<>>, positions |-> <<>>,
   layout |-> None, hasClipPath |-> FALSE, firstLayoutDone |-> FALSE, group |-> None,
   synced |-> TRUE]

LayoutEvents == {"layout_call", "rejected", "no_result", "onLayout", "layout"}

\* a step of the layout procedure is logged with the state of its group at that moment
Emit(s, e) ==
  [s EXCEPT !.log = Append(@, [ev |-> e.ev, g |-> e.g, n |-> e.n, type |-> e.type,
                               targets |-> e.targets, path |-> e.path, result |-> e.result,
                               snap |-> IF e.ev \in LayoutEvents THEN Snap(s, e.g)
                                        ELSE NoSnap])]

\* ------------------------------------------------------------------ ancestry
\* A walk up a parent chain visits at most every node once; a longer walk means
\* the chain is cyclic, where the program would never return.  The walks below
\* stop after StackLimit steps, which no acyclic tree reaches.
StackLimit == Cardinality(Nodes)

\* the loop of FabricObjectAncestryMixin.isDescendantOf: walk group, else canvas
RECURSIVE WalkUp(_, _, _, _)
WalkUp(s, parent, target, k) ==
  IF parent = None \/ k > StackLimit THEN FALSE
  ELSE IF target = parent THEN TRUE
  ELSE IF parent = Canvas THEN FALSE
  ELSE WalkUp(s, IF s.group[parent] # None THEN s.group[parent] ELSE s.canvas[parent],
              target, k + 1)

\* a faulty isDescendantOf that looks at the parent only
isDescendantOf_ParentOnly(s, n, target) ==
  target # None /\ target = (IF s.group[n] # None THEN s.group[n] ELSE s.canvas[n])

isDescendantOf(s, n, target) ==
  WalkUp(s, IF s.group[n] # None THEN s.group[n] ELSE s.canvas[n], target, 0)

\* the loop of FabricObjectAncestryMixin.getAncestors: ancestors from bottom to top
RECURSIVE CollectUp(_, _, _, _)
CollectUp(s, parent, strict, k) ==
  IF parent = None \/ k > StackLimit THEN <<>>
  ELSE IF parent = Canvas THEN <<Canvas>>
  ELSE <<parent>> \o CollectUp(s, IF s.group[parent] # None THEN s.group[parent]
                                  ELSE IF strict THEN None ELSE s.canvas[parent],
                               strict, k + 1)

getAncestors(s, n, strict) ==
  CollectUp(s, IF s.group[n] # None THEN s.group[n]
               ELSE IF strict THEN None ELSE s.canvas[n], strict, 0)

\* the result of findCommonAncestors
Comparison(fork, otherFork, common) ==
  [fork |-> fork, otherFork |-> otherFork, common |-> common]

\* a faulty test that never finds this at the top of the other's ancestors
isTopAncestorOf_Never(self, ancestors, otherAncestors) == FALSE

\* `this` has no ancestors and is the top ancestor of `other`
isTopAncestorOf(self, ancestors, otherAncestors) ==
  /\ Len(ancestors) = 0
  /\ Len(otherAncestors) > 0
  /\ self = otherAncestors[Len(otherAncestors)]

\* the two loops of findCommonAncestors over ancestors[i] and otherAncestors[j]
RECURSIVE CompareAncestors(_, _, _, _, _, _)
CompareAncestors(self, other, ancestors, otherAncestors, i, j) ==
  IF i > Len(ancestors)
  THEN Comparison(<<self>> \o ancestors, <<other>> \o otherAncestors, <<>>)
  ELSE IF j = 0 /\ ancestors[i] = other
  THEN Comparison(<<self>> \o SubSeq(ancestors, 1, i - 1), <<>>,
                  SubSeq(ancestors, i, Len(ancestors)))
  ELSE IF j = 0 \/ j > Len(otherAncestors)
  THEN (IF j = 0 /\ Len(otherAncestors) > 0
        THEN CompareAncestors(self, other, ancestors, otherAncestors, i, 1)
        ELSE CompareAncestors(self, other, ancestors, otherAncestors, i + 1, 0))
  ELSE IF self = otherAncestors[j]
  THEN Comparison(<<>>, <<other>> \o SubSeq(otherAncestors, 1, j - 1),
                  <<self>> \o ancestors)
  ELSE IF ancestors[i] = otherAncestors[j]
  THEN Comparison(<<self>> \o SubSeq(ancestors, 1, i - 1),
                  <<other>> \o SubSeq(otherAncestors, 1, j - 1),
                  SubSeq(ancestors, i, Len(ancestors)))
  ELSE CompareAncestors(self, other, ancestors, otherAncestors, i, j + 1)

\* findCommonAncestors once both ancestor lists are known
compareChains(self, other, ancestors, otherAncestors) ==
  IF isTopAncestorOf(self, ancestors, otherAncestors)
  THEN Comparison(<<>>, <<other>> \o SubSeq(otherAncestors, 1, Len(otherAncestors) - 1),
                  <<self>>)
  ELSE CompareAncestors(self, other, ancestors, otherAncestors, 1, 0)

\* FabricObjectAncestryMixin.findCommonAncestors
findCommonAncestors(s, self, other, strict) ==
  IF self = other
  THEN Comparison(<<>>, <<>>, <<self>> \o getAncestors(s, self, strict))
  ELSE compareChains(self, other, getAncestors(s, self, strict), getAncestors(s, other, strict))

\* the values of isInFrontOf: undefined, true, false
Undefined == "undefined"
Bool(b) == IF b THEN "true" ELSE "false"

\* a faulty lookup that reads the canvas' list for every common ancestor
childList_CanvasOnly(s, a) == s.canvasObjects

\* the child list of a common ancestor: a group's or the canvas'
childList(s, a) == IF a = Canvas THEN s.canvasObjects ELSE s.objects[a]

\* a faulty pop that takes the first element of the fork
pop_First(fork) == IF Len(fork) = 0 THEN None ELSE fork[1]

\* Array.prototype.pop applied to a fork: its last element, or undefined
pop(fork) == IF Len(fork) = 0 THEN None ELSE fork[Len(fork)]

\* a faulty comparison that puts the lower index in front
headInFront_LowerIndex(s, firstCommonAncestor, headOfFork, headOfOtherFork) ==
  /\ IndexOf(childList(s, firstCommonAncestor), headOfFork) # 0
  /\ IndexOf(childList(s, firstCommonAncestor), headOfFork) <
       IndexOf(childList(s, firstCommonAncestor), headOfOtherFork)

\* thisIndex > -1 && thisIndex > otherIndex, indices in the common ancestor
headInFront(s, firstCommonAncestor, headOfFork, headOfOtherFork) ==
  /\ IndexOf(childList(s, firstCommonAncestor), headOfFork) # 0
  /\ IndexOf(childList(s, firstCommonAncestor), headOfFork) >
       IndexOf(childList(s, firstCommonAncestor), headOfOtherFork)

\* isInFrontOf once the ancestry comparison is known
inFrontBy(s, self, other, ancestorData) ==
  IF Contains(ancestorData.fork, other) THEN Bool(TRUE)
  ELSE IF Contains(ancestorData.otherFork, self) THEN Bool(FALSE)
  ELSE IF Len(ancestorData.common) = 0 THEN Undefined
  ELSE Bool(headInFront(s, ancestorData.common[1], pop(ancestorData.fork),
                        pop(ancestorData.otherFork)))

\* a faulty isInFrontOf that answers whether other is in front of this
isInFrontOf_Swapped(s, self, other) ==
  IF self = other THEN Undefined
  ELSE inFrontBy(s, other, self, findCommonAncestors(s, other, self, FALSE))

\* FabricObjectAncestryMixin.isInFrontOf
isInFrontOf(s, self, other) ==
  IF self = other THEN Undefined
  ELSE inFrontBy(s, self, other, findCommonAncestors(s, self, other, FALSE))

\* ------------------------------------------------------------------ geometry
\* getRelativeCenterPoint: the center of n in the plane of its parent
RelCenter(s, n) ==
  Pt(NSub(s.left[n], NHalf(NMul(s.origin[n], s.width[n]))),
     NSub(s.top[n],  NHalf(NMul(s.origin[n], s.height[n]))))

\* _getTransformedDimensions
Dims(s, n) == Pt(s.width[n], s.height[n])

\* setPositionByOrigin(c, 'center', 'center')
SetCenter(s, n, c) ==
  [s EXCEPT !.left[n] = NAdd(c.x, NHalf(NMul(s.origin[n], s.width[n]))),
            !.top[n]  = NAdd(c.y, NHalf(NMul(s.origin[n], s.height[n])))]

\* calcTransformMatrix: the translation that sends the plane of n's children
\* to the canvas plane
RECURSIVE TransformWithin(_, _, _)
TransformWithin(s, n, k) ==
  IF s.group[n] # None /\ k <= StackLimit
  THEN PAdd(TransformWithin(s, s.group[n], k + 1), RelCenter(s, n))
  ELSE RelCenter(s, n)

AbsCenter(s, n) == TransformWithin(s, n, 0)

\* clip paths
NoClip == [present |-> FALSE, abs |-> FALSE, left |-> 0, top |-> 0, width |-> 0, height |-> 0]
ClipCenter(c) == Pt(c.left + (c.width \div 2), c.top + (c.height \div 2))

\* Group._adjustObjectPosition
adjustObjectPosition(s, n, diff) ==
  [s EXCEPT !.left[n] = NAdd(@, diff.x), !.top[n] = NAdd(@, diff.y)]

RECURSIVE AdjustAll(_, _, _, _)
AdjustAll(s, objs, i, diff) ==
  IF i > Len(objs) THEN s
  ELSE AdjustAll(adjustObjectPosition(s, objs[i], diff), objs, i + 1, diff)

\* ------------------------------------------------------------------ layout inputs
NoOptions == [present |-> FALSE, left |-> NaN, top |-> NaN, width |-> NaN, height |-> NaN,
              layout |-> None, origin |-> -1, clipPath |-> NoClip, interactive |-> FALSE]

NoContext == [present |-> FALSE, layout |-> None, centerX |-> NaN, centerY |-> NaN,
              width |-> NaN, height |-> NaN]

Ctx(type, targets, options, relative, context) ==
  [type |-> type, targets |-> targets, path |-> <<>>, options |-> options,
   objectsRelativeToGroup |-> relative, context |-> context]

\* the span of two corners a and b
CornerSpan(a, b) ==
  [min |-> Pt(NMin(a.x, b.x), NMin(a.y, b.y)),
   max |-> Pt(NMax(a.x, b.x), NMax(a.y, b.y))]

\* a = objCenter.subtract(sizeVector), b = objCenter.add(sizeVector)
ObjectSpan(objCenter, sizeVector) ==
  CornerSpan(PSub(objCenter, sizeVector), PAdd(objCenter, sizeVector))

\* the first object sets min and max, every other object widens them
JoinSpan(i, acc, span) ==
  IF i = 1 THEN span
  ELSE [min |-> Pt(NMin(acc.min.x, span.min.x), NMin(acc.min.y, span.min.y)),
        max |-> Pt(NMax(acc.max.x, span.max.x), NMax(acc.max.y, span.max.y))]

\* objects.forEach of getObjectsBoundingBox
RECURSIVE BoxFold(_, _, _, _)
BoxFold(s, objs, i, acc) ==
  IF i > Len(objs) THEN acc
  ELSE BoxFold(s, objs, i + 1,
               JoinSpan(i, acc, ObjectSpan(RelCenter(s, objs[i]), PHalf(Dims(s, objs[i])))))

\* relativeCenter = ignoreOffset ? size.scalarDivide(2) : min.midPointFrom(max)
BoxCenter(min, size, ignoreOffset) ==
  IF ignoreOffset THEN PHalf(size) ELSE PAdd(min, PHalf(size))

BoxRecord(size, offset, center) ==
  [ok |-> TRUE, centerX |-> center.x, centerY |-> center.y,
   width |-> size.x, height |-> size.y,
   correctionX |-> NaN, correctionY |-> NaN,
   offsetX |-> offset.x, offsetY |-> offset.y]

\* size, offset and center of the box; own is the translation of calcOwnMatrix
BoxOf(box, own, ignoreOffset) ==
  BoxRecord(PSub(box.max, box.min),
            PAdd(box.min, own),
            PAdd(BoxCenter(box.min, PSub(box.max, box.min), ignoreOffset), own))

\* Group.getObjectsBoundingBox
getObjectsBoundingBox(s, g, objs, ignoreOffset) ==
  IF Len(objs) = 0 THEN NoResult
  ELSE BoxOf(BoxFold(s, objs, 1, [min |-> Zero, max |-> Zero]), RelCenter(s, g), ignoreOffset)

\* ------------------------------------------------------------------ layout strategy
\* One axis of prepareInitialBoundingBox.  has: the option left (top) is a
\* number; hasSize: the option width (height) is a number; pos: this.left
\* (this.top); o2: twice the resolved origin; the stroke width vector is 0.
InitialAxis(has, hasSize, pos, o2, sizeAfter, bboxSizeAfter, calculatedCenter) ==
  LET originCorrection == NHalf(NMul(sizeAfter, o2 + 1))
      centerCorrection == IF hasSize THEN NHalf(bboxSizeAfter) ELSE originCorrection
      center == IF has THEN NSub(pos, NHalf(NMul(sizeAfter, o2)))
                ELSE NSub(calculatedCenter, centerCorrection)
      offsetCorrection ==
        IF has
        THEN NAdd(NSub(center, calculatedCenter), IF hasSize THEN NHalf(bboxSizeAfter) ELSE 0)
        ELSE NNeg(IF hasSize THEN NHalf(sizeAfter) ELSE originCorrection)
  IN [center |-> center,
      correction |-> NAdd(IF hasSize THEN NNeg(NHalf(sizeAfter)) ELSE 0, offsetCorrection)]

\* width = hasWidth ? this.width : (bbox.width || 0)
InitialSize(hasSize, own, measured) == IF hasSize THEN own ELSE OrZero(measured)

InitialResult(x, y, w, h) ==
  [ok |-> TRUE, centerX |-> x.center, centerY |-> y.center,
   width |-> w, height |-> h,
   correctionX |-> x.correction, correctionY |-> y.correction,
   offsetX |-> NaN, offsetY |-> NaN]

InitialBox(s, g, options, bbox) ==
  InitialResult(
    InitialAxis(IsNum(options.left), IsNum(options.width), s.left[g], s.origin[g],
                InitialSize(IsNum(options.width), s.width[g], bbox.width),
                bbox.width, OrZero(bbox.centerX)),
    InitialAxis(IsNum(options.top), IsNum(options.height), s.top[g], s.origin[g],
                InitialSize(IsNum(options.height), s.height[g], bbox.height),
                bbox.height, OrZero(bbox.centerY)),
    InitialSize(IsNum(options.width), s.width[g], bbox.width),
    InitialSize(IsNum(options.height), s.height[g], bbox.height))

\* Group.prepareInitialBoundingBox
prepareInitialBoundingBox(s, g, objs, ctx) ==
  IF \/ /\ IsNum(ctx.options.left) /\ IsNum(ctx.options.top)
        /\ IsNum(ctx.options.width) /\ IsNum(ctx.options.height)
        /\ ctx.objectsRelativeToGroup
     \/ Len(objs) = 0
  THEN NoResult
  ELSE InitialBox(s, g, ctx.options, getObjectsBoundingBox(s, g, objs, FALSE))

\* Object.assign(bbox || {}, context.context)
AssignContext(bbox, c) ==
  [ok |-> TRUE,
   centerX |-> IF IsNum(c.centerX) THEN c.centerX ELSE bbox.centerX,
   centerY |-> IF IsNum(c.centerY) THEN c.centerY ELSE bbox.centerY,
   width   |-> IF IsNum(c.width) THEN c.width ELSE bbox.width,
   height  |-> IF IsNum(c.height) THEN c.height ELSE bbox.height,
   correctionX |-> bbox.correctionX, correctionY |-> bbox.correctionY,
   offsetX |-> bbox.offsetX, offsetY |-> bbox.offsetY]

\* Group.prepareBoundingBox
prepareBoundingBox(s, g, objs, ctx) ==
  IF ctx.type = "initialization" THEN prepareInitialBoundingBox(s, g, objs, ctx)
  ELSE IF ctx.type = "imperative" /\ ctx.context.present
  THEN AssignContext(getObjectsBoundingBox(s, g, objs, FALSE), ctx.context)
  ELSE getObjectsBoundingBox(s, g, objs, FALSE)

\* the results of the clip-path branch of getLayoutStrategyResult
ClipResult(centerX, centerY, correctionX, correctionY, w, h) ==
  [ok |-> TRUE, centerX |-> centerX, centerY |-> centerY, width |-> w, height |-> h,
   correctionX |-> correctionX, correctionY |-> correctionY,
   offsetX |-> NaN, offsetY |-> NaN]

\* clipPath.absolutePositioned, on initialization or layout_change
AbsoluteClipResult(clipPathCenter, clipPathSizeAfter) ==
  ClipResult(clipPathCenter.x, clipPathCenter.y, NaN, NaN,
             clipPathSizeAfter.x, clipPathSizeAfter.y)

\* a clip path in the group's plane, on initialization or layout_change
RelativeClipInitialResult(bbox, clipPathCenter, clip) ==
  ClipResult(NAdd(OrZero(bbox.centerX), clipPathCenter.x),
             NAdd(OrZero(bbox.centerY), clipPathCenter.y),
             NSub(bbox.correctionX, clipPathCenter.x),
             NSub(bbox.correctionY, clipPathCenter.y),
             clip.width, clip.height)

\* a clip path in the group's plane, on any other trigger
RelativeClipResult(center, clipPathCenter, clipPathSizeAfter) ==
  ClipResult(NAdd(center.x, clipPathCenter.x), NAdd(center.y, clipPathCenter.y),
             NaN, NaN, clipPathSizeAfter.x, clipPathSizeAfter.y)

\* Object.assign(bbox, { correctionX: -bbox.offsetX || 0, correctionY: -bbox.offsetY || 0 })
SvgResult(bbox) ==
  [bbox EXCEPT !.ok = TRUE,
               !.correctionX = OrZero(NNeg(bbox.offsetX)),
               !.correctionY = OrZero(NNeg(bbox.offsetY))]

\* a faulty condition that measures the objects of a fixed group on every trigger
measuresObjects_FixedAlways(layoutDirective, ctx) ==
  layoutDirective = "fit-content" \/ layoutDirective = "fit-content-lazy"
  \/ layoutDirective = "fixed"

\* the second condition of getLayoutStrategyResult: the modes and triggers that
\* take the bounding box of the objects
measuresObjects(layoutDirective, ctx) ==
  layoutDirective = "fit-content" \/ layoutDirective = "fit-content-lazy"
  \/ (layoutDirective = "fixed"
      /\ (ctx.type = "initialization" \/ ctx.type = "imperative"))

\* Group.getLayoutStrategyResult
getLayoutStrategyResult(s, g, layoutDirective, objs, ctx) ==
  IF layoutDirective = "fit-content-lazy" /\ ctx.type = "added"
     /\ Len(objs) > Len(ctx.targets)
  THEN prepareBoundingBox(s, g, Append(ctx.targets, g), ctx)
  ELSE IF measuresObjects(layoutDirective, ctx)
  THEN prepareBoundingBox(s, g, objs, ctx)
  ELSE IF layoutDirective = "clip-path" /\ s.clipPath[g].present
  THEN
    IF s.clipPath[g].abs /\ (ctx.type = "initialization" \/ ctx.type = "layout_change")
    THEN AbsoluteClipResult(
           IF s.group[g] # None
           THEN PSub(ClipCenter(s.clipPath[g]), AbsCenter(s, s.group[g]))
           ELSE ClipCenter(s.clipPath[g]),
           Pt(s.clipPath[g].width, s.clipPath[g].height))
    ELSE IF ~s.clipPath[g].abs
    THEN IF ctx.type = "initialization" \/ ctx.type = "layout_change"
         THEN RelativeClipInitialResult(prepareBoundingBox(s, g, objs, ctx),
                                        ClipCenter(s.clipPath[g]), s.clipPath[g])
         ELSE RelativeClipResult(RelCenter(s, g), ClipCenter(s.clipPath[g]),
                                 Pt(s.clipPath[g].width, s.clipPath[g].height))
    ELSE NoResult
  ELSE IF layoutDirective = "svg" /\ ctx.type = "initialization"
  THEN SvgResult(getObjectsBoundingBox(s, g, objs, TRUE))
  ELSE NoResult

\* ------------------------------------------------------------------ layout procedure
\* a faulty guard that lets every request through
rejectsLayout_Never(s, g, ctx) == FALSE

\* the guard of Group._applyLayoutStrategy: a request other than the
\* initialization is rejected until the first layout is done
rejectsLayout(s, g, ctx) ==
  ctx.type # "initialization" /\ ~s.firstLayoutDone[g]

\* a faulty procedure without the early return
abortsLayout_Never(result, isFirstLayout) == FALSE

\* no result and not the first layout: the procedure returns
abortsLayout(result, isFirstLayout) == ~result.ok /\ ~isFirstLayout

\* a faulty procedure that marks the first layout done only when there is a result
markFirstLayoutDone_OnResult(s, g, result) ==
  [s EXCEPT !.firstLayoutDone[g] = @ \/ result.ok]

\* this._firstLayoutDone = true
markFirstLayoutDone(s, g, result) == [s EXCEPT !.firstLayoutDone[g] = TRUE]

\* a faulty procedure that passes the path on without this group
pushPath_Skips(ctx, g) == ctx

\* context.path.push(this)
pushPath(ctx, g) == [ctx EXCEPT !.path = Append(@, g)]

\* vector = center - newCenter + (correctionX || 0, correctionY || 0); the own
\* matrix is a translation, so diff = vector
layoutDiff(center, result) ==
  PAdd(PSub(center, Pt(result.centerX, result.centerY)),
       Pt(OrZero(result.correctionX), OrZero(result.correctionY)))

\* this.set({ width: result.width, height: result.height })
setDimensions(s, g, result) ==
  [s EXCEPT !.width[g] = result.width, !.height[g] = result.height]

\* a faulty procedure that leaves the objects where they were
adjustObjects_Never(s, g, ctx, diff) == s

\* !context.objectsRelativeToGroup && this.forEachObject(_adjustObjectPosition)
adjustObjects(s, g, ctx, diff) ==
  IF ~ctx.objectsRelativeToGroup THEN AdjustAll(s, s.objects[g], 1, diff) ELSE s

\* the clip path follows, unless it defines the layout or is absolutePositioned
adjustClipPath(s, g, isFirstLayout, diff) ==
  IF ~isFirstLayout /\ s.layout[g] # "clip-path"
     /\ s.clipPath[g].present /\ ~s.clipPath[g].abs
  THEN [s EXCEPT !.clipPath[g].left = NAdd(@, diff.x),
                 !.clipPath[g].top = NAdd(@, diff.y)]
  ELSE s

\* if (!newCenter.eq(center) || initialTransform) this.setPositionByOrigin(newCenter, ...)
setPosition(s, g, center, newCenter, initialTransform) ==
  IF ~PEq(newCenter, center) \/ initialTransform
  THEN SetCenter(s, g, newCenter) ELSE s

\* the branch of Group._applyLayoutStrategy that applies a result
applyResult(s, g, ctx, center, result) ==
  setPosition(
    adjustClipPath(
      adjustObjects(setDimensions(s, g, result), g, ctx, layoutDiff(center, result)),
      g, ctx.type = "initialization", layoutDiff(center, result)),
    g, center, Pt(result.centerX, result.centerY),
    ctx.type = "initialization" /\ ctx.options.present)

\* the result handed to the hook: the strategy's, or on a first layout without
\* one the group's center, width and height
hookResult(s, g, center, result) ==
  IF result.ok THEN result
  ELSE [NoResult EXCEPT !.centerX = center.x, !.centerY = center.y,
                        !.width = s.width[g], !.height = s.height[g]]

\* this.onLayout(context, result); this.fire('layout', ...)
notifyLayout(s, g, ctx, result) ==
  Emit(Emit(s, Event("onLayout", g, None, ctx.type, ctx.targets, ctx.path, result)),
       Event("layout", g, None, ctx.type, ctx.targets, ctx.path, result))

RECURSIVE applyLayoutStrategy(_, _, _)

\* the recursion up: the parent's procedure runs with this group on the path
propagateLayout(s, g, ctx) ==
  IF s.group[g] = None THEN s
  ELSE IF Len(ctx.path) >= StackLimit
  THEN Emit(s, Event("overflow", g, None, ctx.type, ctx.targets, ctx.path, NoResult))
  ELSE applyLayoutStrategy(s, s.group[g], pushPath(ctx, g))

\* Group._applyLayoutStrategy from the strategy's result on
completeLayout(s, g, ctx, center, result) ==
  IF abortsLayout(result, ctx.type = "initialization")
  THEN Emit(s, Event("no_result", g, None, ctx.type, ctx.targets, ctx.path, NoResult))
  ELSE propagateLayout(
         notifyLayout(
           markFirstLayoutDone(
             IF result.ok THEN applyResult(s, g, ctx, center, result) ELSE s, g, result),
           g, ctx, hookResult(s, g, center, result)),
         g, ctx)

\* Group._applyLayoutStrategy from its guard on
guardedLayout(s, g, ctx) ==
  IF rejectsLayout(s, g, ctx)
  THEN Emit(s, Event("rejected", g, None, ctx.type, ctx.targets, ctx.path, NoResult))
  ELSE completeLayout(s, g, ctx, RelCenter(s, g),
                      getLayoutStrategyResult(s, g, s.layout[g], s.objects[g], ctx))

\* Group._applyLayoutStrategy, with the recursion up the parent chain
applyLayoutStrategy(s0, g, ctx) ==
  guardedLayout(
    Emit(s0, Event("layout_call", g, None, ctx.type, ctx.targets, ctx.path, NoResult)),
    g, ctx)

\* a faulty trigger that runs the layout procedure without the targets
onAfterObjectsChange_NoTargets(s, g, type, targets) ==
  applyLayoutStrategy(s, g, Ctx(type, <<>>, NoOptions, FALSE, NoContext))

\* Group._onAfterObjectsChange
onAfterObjectsChange(s, g, type, targets) ==
  applyLayoutStrategy(s, g, Ctx(type, targets, NoOptions, FALSE, NoContext))

\* ------------------------------------------------------------------ subscriptions
\* a faulty _watchObject that subscribes without unsubscribing first
watchObject_NoOffFirst(s, g, w, object) ==
  IF w THEN [s EXCEPT !.watch[g][object] = @ + 1]
  ELSE [s EXCEPT !.watch[g][object] = IF @ > 0 THEN @ - 1 ELSE 0]

\* Group._watchObject; on adds a subscription, off removes one
watchObject(s, g, w, object) ==
  LET off == [s EXCEPT !.watch[g][object] = IF @ > 0 THEN @ - 1 ELSE 0]
  IN IF w THEN [off EXCEPT !.watch[g][object] = @ + 1] ELSE off

RECURSIVE WatchAll(_, _, _, _, _)
WatchAll(s, g, w, objs, i) ==
  IF i > Len(objs) THEN s
  ELSE WatchAll(watchObject(s, g, w, objs[i]), g, w, objs, i + 1)

\* ------------------------------------------------------------------ canvas reference
\* a faulty _set that stores the canvas reference without handing it to the children
setCanvas_OwnOnly(s, n, value) ==
  [s EXCEPT !.canvas[n] = value]

\* Group._set('canvas', value) and the base _set for a leaf
RECURSIVE setCanvas(_, _, _)
RECURSIVE SetCanvasAll(_, _, _, _)
setCanvas(s, n, value) ==
  LET prev == s.canvas[n]
      s1 == [s EXCEPT !.canvas[n] = value]
  IN IF n \in Groups /\ prev # value
     THEN SetCanvasAll(s1, s1.objects[n], 1, value)
     ELSE s1

SetCanvasAll(s, objs, i, value) ==
  IF i > Len(objs) THEN s
  ELSE SetCanvasAll(setCanvas(s, objs[i], value), objs, i + 1, value)

\* ------------------------------------------------------------------ leaving a group
\* the end of Group._exitGroup: the first occurrence of the object leaves the
\* active-object list
forgetActive(s, g, object) ==
  IF Len(s.activeObjects[g]) > 0 /\ IndexOf(s.activeObjects[g], object) # 0
  THEN [s EXCEPT !.activeObjects[g] = RemoveAt(@, IndexOf(@, object))]
  ELSE s

\* a faulty _exitGroup that leaves the parent reference in place
exitGroupInner_KeepsGroup(s, g, object, removeParentTransform) ==
  LET s2 == IF ~removeParentTransform
            THEN SetCenter(s, object, PAdd(AbsCenter(s, g), AbsCenter(s, object)))
            ELSE s
  IN forgetActive(watchObject(s2, g, FALSE, object), g, object)

\* Group._exitGroup
exitGroupInner(s, g, object, removeParentTransform) ==
  LET s1 == [s EXCEPT !.group[object] = None]
      s2 == IF ~removeParentTransform
            THEN SetCenter(s1, object, PAdd(AbsCenter(s1, g), AbsCenter(s1, object)))
            ELSE s1
  IN forgetActive(watchObject(s2, g, FALSE, object), g, object)

\* a faulty exitGroup that leaves the canvas reference in place
exitGroup_KeepsCanvas(s, g, object, removeParentTransform) ==
  exitGroupInner(s, g, object, removeParentTransform)

\* Group.exitGroup
exitGroup(s, g, object, removeParentTransform) ==
  setCanvas(exitGroupInner(s, g, object, removeParentTransform), object, None)

\* a faulty _onObjectRemoved that leaves the object its coordinates in the group
onObjectRemoved_KeepsRelative(s, g, object) ==
  Emit(exitGroup(s, g, object, TRUE), Event("removed", g, object, None, <<>>, <<>>, NoResult))

\* Group._onObjectRemoved
onObjectRemoved(s, g, object) ==
  Emit(exitGroup(s, g, object, FALSE), Event("removed", g, object, None, <<>>, <<>>, NoResult))

\* Collection.remove(objectsToRemove, callback)
RECURSIVE CollectionRemove(_, _, _, _, _)
CollectionRemove(s, g, objectsToRemove, i, removed) ==
  IF i > Len(objectsToRemove) THEN [s |-> s, removed |-> removed]
  ELSE LET object == objectsToRemove[i]
           index  == IndexOf(s.objects[g], object)
       IN IF index # 0
          THEN CollectionRemove(
                 onObjectRemoved([s EXCEPT !.objects[g] = RemoveAt(@, index)], g, object),
                 g, objectsToRemove, i + 1, Append(removed, object))
          ELSE CollectionRemove(s, g, objectsToRemove, i + 1, removed)

\* Group.remove
remove(s, g, objs) ==
  LET r == CollectionRemove(s, g, objs, 1, <<>>)
      s1 == onAfterObjectsChange(r.s, g, "removed", r.removed)
  IN [s1 EXCEPT !.ret = r.removed]

\* Group.removeAll
removeAll(s, g) == remove([s EXCEPT !.activeObjects[g] = <<>>], g, s.objects[g])

\* ------------------------------------------------------------------ entering a group
\* a faulty canEnterGroup without the ancestor test
canEnterGroup_NoAncestorTest(s, g, object) ==
  IF object = g THEN FALSE
  ELSE IF IndexOf(s.objects[g], object) # 0 THEN FALSE
  ELSE TRUE

\* a faulty canEnterGroup without the already-a-child test
canEnterGroup_NoChildTest(s, g, object) ==
  IF object = g \/ isDescendantOf(s, g, object) THEN FALSE
  ELSE TRUE

\* Group.canEnterGroup
canEnterGroup(s, g, object) ==
  IF object = g \/ isDescendantOf(s, g, object) THEN FALSE
  ELSE IF IndexOf(s.objects[g], object) # 0 THEN FALSE
  ELSE TRUE

\* Group._filterObjectsBeforeEnteringGroup
RECURSIVE FilterFrom(_, _, _, _)
FilterFrom(s, g, objs, i) ==
  IF i > Len(objs) THEN <<>>
  ELSE (IF canEnterGroup(s, g, objs[i]) /\ IndexOf(objs, objs[i]) = i
        THEN <<objs[i]>> ELSE <<>>) \o FilterFrom(s, g, objs, i + 1)

filterObjectsBeforeEnteringGroup(s, g, objs) == FilterFrom(s, g, objs, 1)

\* the end of Group._enterGroup: the object joins the active-object list when
\* the canvas' active object is the object or an ancestor of it
pushIfActive(s, g, object) ==
  IF /\ s.canvas[g] # None
     /\ s.activeObject # None
     /\ (s.activeObject = object \/ isDescendantOf(s, object, s.activeObject))
  THEN [s EXCEPT !.activeObjects[g] = Append(@, object)]
  ELSE s

\* Group._enterGroup
enterGroupInner(s, g, object, removeParentTransform) ==
  LET s1 == IF removeParentTransform
            THEN SetCenter(s, object, PSub(AbsCenter(s, object), AbsCenter(s, g)))
            ELSE s
      s2 == [s1 EXCEPT !.group[object] = g]
      s3 == setCanvas(s2, object, s2.canvas[g])
      s4 == IF s3.interactive[g] THEN watchObject(s3, g, TRUE, object) ELSE s3
  IN Emit(pushIfActive(s4, g, object), Event("enter", g, object, None, <<>>, <<>>, NoResult))

\* a faulty enterGroup that removes the object only from a group other than this
enterGroup_KeepsOwn(s, g, object, removeParentTransform) ==
  LET s1 == IF s.group[object] # None /\ s.group[object] # g
            THEN remove(s, s.group[object], <<object>>)
            ELSE s
  IN enterGroupInner(s1, g, object, removeParentTransform)

\* a faulty enterGroup that never removes the object from its previous group
enterGroup_NoRemoval(s, g, object, removeParentTransform) ==
  enterGroupInner(s, g, object, removeParentTransform)

\* Group.enterGroup
enterGroup(s, g, object, removeParentTransform) ==
  LET s1 == IF s.group[object] # None
            THEN remove(s, s.group[object], <<object>>)
            ELSE s
  IN enterGroupInner(s1, g, object, removeParentTransform)

\* a faulty _onObjectAdded that leaves the object its coordinates in the canvas plane
onObjectAdded_KeepsAbsolute(s, g, object) ==
  Emit(enterGroup(s, g, object, FALSE), Event("added", g, object, None, <<>>, <<>>, NoResult))

\* Group._onObjectAdded
onObjectAdded(s, g, object) ==
  Emit(enterGroup(s, g, object, TRUE), Event("added", g, object, None, <<>>, <<>>, NoResult))

\* the callback loop of Collection.add and Collection.insertAt
RECURSIVE AddedLoop(_, _, _, _)
AddedLoop(s, g, objs, i) ==
  IF i > Len(objs) THEN s
  ELSE AddedLoop(onObjectAdded(s, g, objs[i]), g, objs, i + 1)

\* Array.prototype.splice start index
spliceStart(len, index) ==
  IF index > len THEN len ELSE IF index < 0 THEN (IF len + index < 0 THEN 0 ELSE len + index) ELSE index

\* Collection.add and Collection.insertAt: the objects spliced into the child
\* sequence, the callback per object, then Group._onAfterObjectsChange
spliceObjects(s, g, allowedObjects, at) ==
  [onAfterObjectsChange(
     AddedLoop([s EXCEPT !.objects[g] = SubSeq(@, 1, at) \o allowedObjects \o SubSeq(@, at + 1, Len(@))],
               g, allowedObjects, 1),
     g, "added", allowedObjects)
   EXCEPT !.ret = <<>>]

\* Group.add over Collection.add (push)
add(s, g, objs) ==
  spliceObjects(s, g, filterObjectsBeforeEnteringGroup(s, g, objs), Len(s.objects[g]))

\* Group.insertAt over Collection.insertAt (splice at index)
insertAt(s, g, objs, index) ==
  spliceObjects(s, g, filterObjectsBeforeEnteringGroup(s, g, objs),
                spliceStart(Len(s.objects[g]), index))

\* ------------------------------------------------------------------ property setters
\* Group._set('layout', value)
setLayout(s, g, value) ==
  LET prev == s.layout[g]
      s1 == [s EXCEPT !.layout[g] = value]
  IN IF prev # value
     THEN applyLayoutStrategy(s1, g, Ctx("layout_change", <<>>, NoOptions, FALSE, NoContext))
     ELSE s1

\* Group._set('interactive', value)
setInteractive(s, g, value) ==
  WatchAll([s EXCEPT !.interactive[g] = value], g, value, s.objects[g], 1)

\* Group.triggerLayout
triggerLayout(s, g, context) ==
  LET s1 == IF context.present /\ context.layout # None
            THEN [s EXCEPT !.layout[g] = context.layout] ELSE s
  IN applyLayoutStrategy(s1, g, Ctx("imperative", <<>>, NoOptions, FALSE, context))

\* Group.__objectMonitor
objectMonitor(s, g, target) ==
  applyLayoutStrategy(s, g, Ctx("object_modified", <<target>>, NoOptions, FALSE, NoContext))

\* target.fire('modified'): every subscribed handler runs, once per subscription
RECURSIVE FireModified(_, _, _, _)
FireModified(s, target, i, k) ==
  IF i > Len(GroupOrder) THEN s
  ELSE IF k >= s.watch[GroupOrder[i]][target] THEN FireModified(s, target, i + 1, 0)
  ELSE FireModified(objectMonitor(s, GroupOrder[i], target), target, i, k + 1)

\* Group.__objectSelectionMonitor
objectSelectionMonitor(s, g, selected, object) ==
  IF selected
  THEN [s EXCEPT !.activeObjects[g] = Append(@, object)]
  ELSE IF Len(s.activeObjects[g]) > 0 /\ IndexOf(s.activeObjects[g], object) # 0
  THEN [s EXCEPT !.activeObjects[g] = RemoveAt(@, IndexOf(@, object))]
  ELSE s

\* target.fire('selected') and target.fire('deselected'): every subscribed
\* handler runs, once per subscription
RECURSIVE FireSelection(_, _, _, _, _)
FireSelection(s, target, selected, i, k) ==
  IF i > Len(GroupOrder) THEN s
  ELSE IF k >= s.watch[GroupOrder[i]][target] THEN FireSelection(s, target, selected, i + 1, 0)
  ELSE FireSelection(objectSelectionMonitor(s, GroupOrder[i], selected, target),
                     target, selected, i, k + 1)

\* ------------------------------------------------------------------ constructor
\* this.set({ ...options, angle: 0, skewX: 0, skewY: 0 })
setOptions(s, g, options) ==
  IF ~options.present THEN s
  ELSE LET s1 == [s EXCEPT !.left[g] = IF IsNum(options.left) THEN options.left ELSE @,
                           !.top[g] = IF IsNum(options.top) THEN options.top ELSE @,
                           !.width[g] = IF IsNum(options.width) THEN options.width ELSE @,
                           !.height[g] = IF IsNum(options.height) THEN options.height ELSE @,
                           !.origin[g] = options.origin,
                           !.clipPath[g] = options.clipPath]
           s2 == IF options.layout # None THEN setLayout(s1, g, options.layout) ELSE s1
       IN setInteractive(s2, g, options.interactive)

RECURSIVE ConstructLoop(_, _, _, _)
ConstructLoop(s, g, objs, i) ==
  IF i > Len(objs) THEN s
  ELSE ConstructLoop(enterGroup(s, g, objs[i], FALSE), g, objs, i + 1)

\* new Group(objects, options, objectsRelativeToGroup)
construct(s, g, objs, options, objectsRelativeToGroup) ==
  LET s1 == setOptions([s EXCEPT !.built[g] = TRUE], g, options)
      s2 == [s1 EXCEPT !.objects[g] = objs]
      s3 == ConstructLoop(s2, g, objs, 1)
      s4 == applyLayoutStrategy(s3, g, Ctx("initialization", <<>>, options,
                                           objectsRelativeToGroup, NoContext))
  IN [s4 EXCEPT !.ret = <<>>]

\* ------------------------------------------------------------------ inputs
Opt(lay, l, t, w, h, o, clip, inter) ==
  [present |-> TRUE, left |-> l, top |-> t, width |-> w, height |-> h,
   layout |-> lay, origin |-> o, clipPath |-> clip, interactive |-> inter]

RelClip == [present |-> TRUE, abs |-> FALSE, left |-> -8, top |-> -4, width |-> 8, height |-> 8]

\* constructor arguments besides the objects: options and objectsRelativeToGroup
Config(options, relative) == [options |-> options, objectsRelativeToGroup |-> relative]

CtorConfigs ==
  { Config(NoOptions, FALSE),
    Config(Opt("fixed", 8, 8, 24, 24, -1, NoClip, TRUE), TRUE) }

ChainConfigs ==
  { Config(Opt("fit-content", NaN, NaN, NaN, NaN, -1, NoClip, TRUE), FALSE),
    Config(Opt("fixed", NaN, NaN, 24, 24, -1, NoClip, TRUE), FALSE),
    Config(Opt("fit-content-lazy", NaN, NaN, NaN, NaN, -1, NoClip, FALSE), FALSE),
    Config(Opt("clip-path", NaN, NaN, NaN, NaN, -1, NoClip, TRUE), FALSE) }

Contexts ==
  { NoContext,
    [NoContext EXCEPT !.present = TRUE, !.centerX = 4, !.centerY = 4],
    [NoContext EXCEPT !.present = TRUE, !.layout = "fit-content"] }

Deltas == {Pt(8, 0)}

Existing == Leaves \cup {g \in Groups : built[g]}
ArgLists == SeqsUpTo(Existing, MaxArgs)
Singles  == {<<n>> : n \in Existing}

\* the constructor allocates the next group that does not exist yet
NextGroup == GroupOrder[CHOOSE i \in 1..Len(GroupOrder) :
                          ~built[GroupOrder[i]] /\ \A j \in 1..(i - 1) : built[GroupOrder[j]]]

\* the call just made; options are those given to a constructor
Call(op, g, objs) == [op |-> op, g |-> g, objs |-> objs, options |-> NoOptions]

\* ------------------------------------------------------------------ initial states
\* no group exists; the two leaves lie in the canvas plane
Fresh ==
  [objects |-> [g \in Groups |-> <<>>],
   group |-> [n \in Nodes |-> None],
   canvas |-> [n \in Nodes |-> None],
   built |-> [g \in Groups |-> FALSE],
   layout |-> [g \in Groups |-> "fit-content"],
   firstLayoutDone |-> [g \in Groups |-> FALSE],
   left |-> [n \in Nodes |-> IF n = "r2" THEN 16 ELSE 0],
   top |-> [n \in Nodes |-> IF n = "r2" THEN 8 ELSE 0],
   width |-> [n \in Nodes |-> IF n \in Leaves THEN 8 ELSE 0],
   height |-> [n \in Nodes |-> IF n = "r1" THEN 8 ELSE IF n = "r2" THEN 16 ELSE 0],
   origin |-> [n \in Nodes |-> -1],
   clipPath |-> [g \in Groups |-> NoClip],
   interactive |-> [g \in Groups |-> FALSE],
   watch |-> [g \in Groups |-> [n \in Nodes |-> 0]],
   activeObjects |-> [g \in Groups |-> <<>>],
   activeObject |-> None,
   canvasObjects |-> <<>>,
   excludeFromExport |-> [n \in Nodes |-> FALSE],
   includeDefaultValues |-> [n \in Nodes |-> TRUE],
   log |-> <<>>, ret |-> <<>>]

Start(s, c, n) ==
  /\ call = c
  /\ before = Scene(s, c, s.ret)
  /\ objects = s.objects
  /\ group = s.group
  /\ canvas = s.canvas
  /\ built = s.built
  /\ layout = s.layout
  /\ firstLayoutDone = s.firstLayoutDone
  /\ left = s.left
  /\ top = s.top
  /\ width = s.width
  /\ height = s.height
  /\ origin = s.origin
  /\ clipPath = s.clipPath
  /\ interactive = s.interactive
  /\ watch = s.watch
  /\ activeObjects = s.activeObjects
  /\ activeObject = s.activeObject
  /\ canvasObjects = s.canvasObjects
  /\ excludeFromExport = s.excludeFromExport
  /\ includeDefaultValues = s.includeDefaultValues
  /\ log = s.log
  /\ ret = s.ret
  /\ ops = n

Init == Start(Fresh, Call("none", None, <<>>), 0)

\* the nested scene: g1 = new Group([r1]), g2 = new Group([g1]), g3 = new Group([g2])
\* (each constructor call is evaluated on the finished result of the one before)
Chain(c1, c2, c3) ==
  CHOOSE s3 \in
    {construct([s2 EXCEPT !.log = <<>>], "g3", <<"g2">>, c3.options, c3.objectsRelativeToGroup) :
       s2 \in {construct([s1 EXCEPT !.log = <<>>], "g2", <<"g1">>, c2.options,
                         c2.objectsRelativeToGroup) :
                 s1 \in {construct(Fresh, "g1", <<"r1">>, c1.options,
                                   c1.objectsRelativeToGroup)}}} : TRUE

InitChain ==
  \E c1 \in ChainConfigs, c2 \in ChainConfigs, c3 \in ChainConfigs :
    Start(Chain(c1, c2, c3), Call("construct", "g3", <<"g2">>), 0)

\* ------------------------------------------------------------------ actions
Construct(objs, c) ==
  /\ \E g \in Groups : ~built[g]
  /\ Commit(construct(Cur, NextGroup, objs, c.options, c.objectsRelativeToGroup),
            [Call("construct", NextGroup, objs) EXCEPT !.options = c.options])

Add(g, objs) ==
  /\ built[g]
  /\ Commit(add(Cur, g, objs), Call("add", g, objs))

InsertAt(g, objs, index) ==
  /\ built[g]
  /\ Commit(insertAt(Cur, g, objs, index), Call("insertAt", g, objs))

Remove(g, objs) ==
  /\ built[g]
  /\ Commit(remove(Cur, g, objs), Call("remove", g, objs))

RemoveAll(g) ==
  /\ built[g]
  /\ Commit(removeAll(Cur, g), Call("removeAll", g, <<>>))

SetLayout(g, value) ==
  /\ built[g]
  /\ Commit(setLayout(Cur, g, value), Call("setLayout", g, <<>>))

SetInteractive(g, value) ==
  /\ built[g]
  /\ Commit(setInteractive(Cur, g, value), Call("setInteractive", g, <<>>))

TriggerLayout(g, context) ==
  /\ built[g]
  /\ Commit(triggerLayout(Cur, g, context), Call("triggerLayout", g, <<>>))

\* the object list of the canvas after canvas.add(n) (value is the canvas) or
\* canvas.remove(n) (value is undefined)
listOnCanvas(s, n, value) ==
  [s EXCEPT !.canvasObjects =
     IF value = Canvas
     THEN (IF Contains(@, n) THEN @ ELSE Append(@, n))
     ELSE (IF Contains(@, n) THEN RemoveAt(@, IndexOf(@, n)) ELSE @)]

\* canvas.add / canvas.remove of a top-level object sets its canvas reference
SetCanvas(n, value) ==
  /\ n \in Existing
  /\ group[n] = None
  /\ Commit(setCanvas(listOnCanvas(Cur, n, value), n, value), Call("setCanvas", None, <<n>>))

\* a node is moved and fires 'modified'
Modify(n, d) ==
  /\ n \in Existing
  /\ Commit(FireModified(adjustObjectPosition(Cur, n, d), n, 1, 0),
            Call("modify", None, <<n>>))

\* a node fires 'selected' (TRUE) or 'deselected' (FALSE)
FireSelected(n, selected) ==
  /\ n \in Existing
  /\ Commit(FireSelection(Cur, n, selected, 1, 0),
            Call(IF selected THEN "selected" ELSE "deselected", None, <<n>>))

\* the canvas' active object changes
SetActiveObject(n) ==
  /\ n \in Existing \cup {None}
  /\ n # activeObject
  /\ Commit([Cur EXCEPT !.activeObject = n], Call("setActiveObject", None, <<n>>))

\* ------------------------------------------------------------------ disposal
\* a faulty callback that leaves the subscriptions of the child in place
stopWatching_Never(s, g, object) == s

\* the first statement of the forEachObject callback of dispose
stopWatching(s, g, object) == watchObject(s, g, FALSE, object)

\* Group.dispose of a group and the dispose of a leaf; by is the group whose
\* dispose makes the call, None for a call from outside
RECURSIVE dispose(_, _, _, _)
RECURSIVE DisposeAll(_, _, _, _, _)
dispose(s, by, n, k) ==
  LET s1 == Emit(s, Event("dispose", by, n, None, <<>>, <<>>, NoResult))
  IN IF n \in Groups /\ k <= StackLimit
     THEN DisposeAll([s1 EXCEPT !.activeObjects[n] = <<>>], n, s1.objects[n], 1, k)
     ELSE s1

DisposeAll(s, g, objs, i, k) ==
  IF i > Len(objs) THEN s
  ELSE DisposeAll(dispose(stopWatching(s, g, objs[i]), g, objs[i], k + 1), g, objs, i + 1, k)

\* group.dispose()
Dispose(g) ==
  /\ built[g]
  /\ Commit(dispose(Cur, None, g, 0), Call("dispose", g, <<>>))

\* ------------------------------------------------------------------ serialization
\* what toObject returns for a node: the node's own record, written with the
\* includeDefaultValues setting in force during the call, and for a group the
\* records of its children
Data(n, defaults, objs) == [node |-> n, includeDefaultValues |-> defaults, objects |-> objs]

Serialized(s, data) == [s |-> s, data |-> data]

\* a faulty map callback that leaves the group's setting on the child
restoreDefaults_Never(s, obj, originalDefaults) == s

\* obj.includeDefaultValues = originalDefaults
restoreDefaults(s, obj, originalDefaults) ==
  [s EXCEPT !.includeDefaultValues[obj] = originalDefaults]

RECURSIVE toObject(_, _, _)
RECURSIVE SerializeLoop(_, _, _, _, _, _)
RECURSIVE SerializeNext(_, _, _, _, _, _, _)
\* the map callback of __serializeObjects applied to objs[i], objs[i + 1], ...
SerializeLoop(s, defaults, objs, i, acc, k) ==
  IF i > Len(objs) THEN Serialized(s, acc)
  ELSE SerializeNext(toObject([s EXCEPT !.includeDefaultValues[objs[i]] = defaults],
                              objs[i], k + 1),
                     s.includeDefaultValues[objs[i]], defaults, objs, i, acc, k)

SerializeNext(r, originalDefaults, defaults, objs, i, acc, k) ==
  SerializeLoop(restoreDefaults(r.s, objs[i], originalDefaults), defaults, objs, i + 1,
                Append(acc, r.data), k)

\* Group.__serializeObjects
serializeObjects(s, g, k) ==
  SerializeLoop(s, s.includeDefaultValues[g],
                SelectSeq(s.objects[g], LAMBDA obj : ~s.excludeFromExport[obj]), 1, <<>>, k)

\* the record of a group once its children are serialized
groupData(s, g, r) == Serialized(r.s, Data(g, s.includeDefaultValues[g], r.data))

\* Group.toObject, and toObject of a leaf
toObject(s, n, k) ==
  IF n \in Groups /\ k <= StackLimit
  THEN groupData(s, n, serializeObjects(s, n, k))
  ELSE Serialized(s, Data(n, s.includeDefaultValues[n], <<>>))

\* the state after group.toObject() returned data
returned(r) == [r.s EXCEPT !.ret = <<r.data>>]

\* group.toObject()
ToObject(g) ==
  /\ built[g]
  /\ Commit(returned(toObject(Cur, g, 0)), Call("toObject", g, <<>>))

\* node.set('excludeFromExport', value)
SetExcludeFromExport(n, value) ==
  /\ n \in Existing
  /\ excludeFromExport[n] # value
  /\ Commit([Cur EXCEPT !.excludeFromExport[n] = value], Call("setExcludeFromExport", None, <<n>>))

\* node.set('includeDefaultValues', value)
SetIncludeDefaultValues(n, value) ==
  /\ n \in Existing
  /\ includeDefaultValues[n] # value
  /\ Commit([Cur EXCEPT !.includeDefaultValues[n] = value],
            Call("setIncludeDefaultValues", None, <<n>>))

\* ------------------------------------------------------------------ rendering
\* the nodes in the order in which render draws them: Group.drawObject draws
\* the group's own background, then every child in child-sequence order
RECURSIVE drawObject(_, _, _)
RECURSIVE DrawAll(_, _, _, _)
drawObject(s, n, k) ==
  IF n \in Groups /\ k <= StackLimit
  THEN <<n>> \o DrawAll(s, s.objects[n], 1, k + 1)
  ELSE <<n>>

DrawAll(s, objs, i, k) ==
  IF i > Len(objs) THEN <<>>
  ELSE drawObject(s, objs[i], k) \o DrawAll(s, objs, i + 1, k)

\* the render pass of a tree: of a top node, or of the canvas over its object list
renderAll(s, root) ==
  IF root = Canvas THEN DrawAll(s, s.canvasObjects, 1, 0) ELSE drawObject(s, root, 0)

\* ------------------------------------------------------------------ specifications
\* membership and construction, from the empty scene
Next ==
  /\ ops < MaxOps
  /\ \/ \E objs \in ArgLists, c \in CtorConfigs : Construct(objs, c)
     \/ \E g \in Groups, objs \in ArgLists : Add(g, objs)
     \/ \E g \in Groups, objs \in ArgLists, index \in 0..1 : InsertAt(g, objs, index)
     \/ \E g \in Groups, objs \in ArgLists : Remove(g, objs)
     \/ \E g \in Groups : RemoveAll(g)
     \/ \E n \in Nodes, value \in {Canvas, None} : SetCanvas(n, value)

Spec == Init /\ [][Next]_vars

\* layout triggers on the nested scene
NextChain ==
  /\ ops < MaxChainOps
  /\ \/ \E g \in Groups, objs \in Singles : Add(g, objs)
     \/ \E g \in Groups, objs \in Singles, index \in 0..1 : InsertAt(g, objs, index)
     \/ \E g \in Groups, objs \in Singles : Remove(g, objs)
     \/ \E g \in Groups : RemoveAll(g)
     \/ \E g \in Groups, value \in LayoutModes : SetLayout(g, value)
     \/ \E g \in Groups, value \in BOOLEAN : SetInteractive(g, value)
     \/ \E g \in Groups, context \in Contexts : TriggerLayout(g, context)
     \/ \E n \in Nodes, d \in Deltas : Modify(n, d)

SpecChain == InitChain /\ [][NextChain]_vars

\* subscriptions and the active-object list: groups built interactive or not
WatchConfigs ==
  { Config(NoOptions, FALSE),
    Config(Opt(None, NaN, NaN, NaN, NaN, -1, NoClip, TRUE), FALSE) }

\* the watched scene: g1 = new Group([r1]), interactive or not
InitWatch ==
  \E c \in WatchConfigs :
    Start(construct(Fresh, "g1", <<"r1">>, c.options, c.objectsRelativeToGroup),
          [Call("construct", "g1", <<"r1">>) EXCEPT !.options = c.options], 0)

\* constructor lists of the watched scene: leaves, repeated or not, or one node
WatchLists == SeqsUpTo(Leaves, MaxArgs) \cup Singles

NextWatch ==
  /\ ops < MaxWatchOps
  /\ \/ \E objs \in WatchLists, c \in WatchConfigs : Construct(objs, c)
     \/ \E g \in Groups, objs \in Singles : Add(g, objs)
     \/ \E g \in Groups, objs \in Singles : Remove(g, objs)
     \/ \E g \in Groups, value \in BOOLEAN : SetInteractive(g, value)
     \/ \E n \in Leaves, selected \in BOOLEAN : FireSelected(n, selected)
     \/ \E n \in Groups : SetCanvas(n, Canvas)
     \/ \E n \in Nodes \cup {None} : SetActiveObject(n)

SpecWatch == InitWatch /\ [][NextWatch]_vars

\* disposal: the watched scene with selection events and dispose calls
NextDispose ==
  /\ ops < MaxDisposeOps
  /\ \/ \E objs \in WatchLists, c \in WatchConfigs : Construct(objs, c)
     \/ \E g \in Groups, objs \in Singles : Add(g, objs)
     \/ \E g \in Groups, value \in BOOLEAN : SetInteractive(g, value)
     \/ \E n \in Leaves, selected \in BOOLEAN : FireSelected(n, selected)
     \/ \E g \in Groups : Dispose(g)

SpecDispose == InitWatch /\ [][NextDispose]_vars

\* serialization: g1 = new Group([r1, r2]), g2 = new Group([g1]), then flags
\* are set, membership changes and groups are serialized
Nested(c) ==
  LET s1 == construct(Fresh, "g1", <<"r1", "r2">>, c.options, c.objectsRelativeToGroup)
  IN construct([s1 EXCEPT !.log = <<>>], "g2", <<"g1">>, c.options, c.objectsRelativeToGroup)

InitExport == Start(Nested(Config(NoOptions, FALSE)), Call("construct", "g2", <<"g1">>), 0)

NextExport ==
  /\ ops < MaxExportOps
  /\ \/ \E g \in Groups, objs \in Singles : Add(g, objs)
     \/ \E g \in Groups, objs \in Singles : Remove(g, objs)
     \/ \E n \in Nodes, value \in BOOLEAN : SetExcludeFromExport(n, value)
     \/ \E n \in Nodes, value \in BOOLEAN : SetIncludeDefaultValues(n, value)
     \/ \E g \in Groups : ToObject(g)

SpecExport == InitExport /\ [][NextExport]_vars

\* groups without children: constructed empty or emptied, in the modes that
\* measure the children, then laid out again by the caller
EmptyLists == {<<>>, <<"r1">>}

EmptyConfigs ==
  { Config(NoOptions, FALSE),
    Config(Opt("svg", NaN, NaN, NaN, NaN, -1, NoClip, FALSE), FALSE),
    Config(Opt("clip-path", NaN, NaN, NaN, NaN, -1, RelClip, FALSE), FALSE),
    Config(Opt("clip-path", NaN, NaN, NaN, NaN, -1, [RelClip EXCEPT !.abs = TRUE], FALSE), FALSE) }

NextEmpty ==
  /\ ops < MaxEmptyOps
  /\ \/ \E objs \in EmptyLists, c \in EmptyConfigs : Construct(objs, c)
     \/ \E g \in Groups, objs \in Singles : Add(g, objs)
     \/ \E g \in Groups, objs \in Singles : Remove(g, objs)
     \/ \E g \in Groups, context \in Contexts : TriggerLayout(g, context)

SpecEmpty == Init /\ [][NextEmpty]_vars

\* geometry of membership: the second leaf lies apart from the first or is
\* concentric with it
Placements == {Pt(16, 8), Pt(0, -4)}

Placed(p) == [Fresh EXCEPT !.left["r2"] = p.x, !.top["r2"] = p.y]

GeometryConfigs ==
  { Config(NoOptions, FALSE),
    Config(Opt(None, NaN, NaN, 24, NaN, -1, NoClip, FALSE), FALSE),
    Config(Opt("fixed", NaN, NaN, 24, 24, -1, NoClip, FALSE), FALSE) }

InitGeometry == \E p \in Placements : Start(Placed(p), Call("none", None, <<>>), 0)

NextGeometry ==
  /\ ops < MaxGeometryOps
  /\ \/ \E objs \in ArgLists, c \in GeometryConfigs : Construct(objs, c)
     \/ \E g \in Groups, objs \in Singles : Add(g, objs)
     \/ \E g \in Groups, objs \in Singles : Remove(g, objs)

SpecGeometry == InitGeometry /\ [][NextGeometry]_vars

\* ------------------------------------------------------------------ vocabulary of the properties
IsChild(n, g) == \E i \in 1..Len(objects[g]) : objects[g][i] = n

\* the groups reached from n by following group references, in at most k steps
RECURSIVE AncestorsWithin(_, _)
AncestorsWithin(n, k) ==
  IF k = 0 \/ group[n] = None THEN {}
  ELSE {group[n]} \cup AncestorsWithin(group[n], k - 1)

Ancestors(n) == AncestorsWithin(n, Cardinality(Nodes))

\* the elements of seq that satisfy Keep, each at its first occurrence, in order
RECURSIVE FirstOccurrences(_, _, _)
FirstOccurrences(seq, i, keep) ==
  IF i > Len(seq) THEN <<>>
  ELSE (IF seq[i] \in keep /\ \A j \in 1..(i - 1) : seq[j] # seq[i]
        THEN <<seq[i]>> ELSE <<>>) \o FirstOccurrences(seq, i + 1, keep)

\* the nodes a group accepts: not itself, not one of its ancestors, not a child
Acceptable(g) == Nodes \ ({g} \cup Ancestors(g) \cup Range(objects[g]))

Entering == {"add", "insertAt"}
Happened(kind) == \E i \in 1..Len(log) : log[i].ev = kind

\* ------------------------------------------------------------------ C1
\* C1: after every completed call, a node is in a group's child sequence
\* exactly when the node's group reference is that group.
C1_ParentChildConsistent ==
  \A n \in Nodes, g \in Groups : IsChild(n, g) <=> group[n] = g

\* an add has moved a node out of another group into the receiver
C1_Witness ==
  /\ call.op = "add"
  /\ \E i \in 1..Len(log) :
       /\ log[i].ev = "removed"
       /\ log[i].g # call.g
       /\ group[log[i].n] = call.g
       /\ group[call.g] # None

\* ------------------------------------------------------------------ C2
\* C2: no node is its own ancestor, and an add whose arguments are the group
\* itself or its ancestors changes no child sequence and no group reference.
C2_Acyclic == \A n \in Nodes : n \notin Ancestors(n)

C2_RejectedAdd ==
  (/\ call'.op \in Entering
   /\ call'.objs # <<>>
   /\ \A i \in 1..Len(call'.objs) :
        call'.objs[i] = call'.g \/ call'.objs[i] \in Ancestors(call'.g))
  => (objects' = objects /\ group' = group)

C2_NoCycle == [](C2_Acyclic) /\ [][C2_RejectedAdd]_vars

\* a group was asked to add the group that contains it
C2_Witness ==
  /\ call.op = "add"
  /\ \E h \in Range(call.objs) : h \in Ancestors(call.g)

\* ------------------------------------------------------------------ C3
\* C3: no node occurs twice in the child sequence of a group.
C3_NoDuplicateChild == \A g \in Groups : NoDup(objects[g])

\* a group was constructed from a list that names one node twice
C3_Witness ==
  /\ call.op = "construct"
  /\ ~NoDup(call.objs)
  /\ objects[call.g] # <<>>

\* ------------------------------------------------------------------ C4
\* C4: a node is in the child sequence of at most one group, and a node that
\* add, insertAt or the constructor takes from another group ends in the
\* receiver's sequence and in no other.
C4_AtMostOneParent ==
  \A n \in Nodes : Cardinality({g \in Groups : IsChild(n, g)}) <= 1

C4_Taken ==
  IF call'.op \in Entering THEN Range(call'.objs) \cap Acceptable(call'.g)
  ELSE IF call'.op = "construct" THEN Range(call'.objs)
  ELSE {}

C4_Moves ==
  \A n \in C4_Taken :
    (group[n] # None /\ group[n] # call'.g)
    => /\ \E i \in 1..Len(objects'[call'.g]) : objects'[call'.g][i] = n
       /\ \A h \in Groups \ {call'.g} :
            \A i \in 1..Len(objects'[h]) : objects'[h][i] # n

C4_Exclusive == [](C4_AtMostOneParent) /\ [][C4_Moves]_vars

\* the constructor took a node that was the child of an existing group
C4_Witness ==
  /\ call.op = "construct"
  /\ \E i \in 1..Len(log) :
       log[i].ev = "removed" /\ log[i].g # call.g /\ group[log[i].n] = call.g

\* ------------------------------------------------------------------ C5
\* C5: add never fails, and appends to the previous child sequence exactly the
\* arguments that are not the group, not an ancestor of it and not already a
\* child, each at its first occurrence and in argument order.
C5_AddStep ==
  call'.op = "add"
  => /\ objects'[call'.g] =
          objects[call'.g] \o FirstOccurrences(call'.objs, 1, Acceptable(call'.g))
     /\ \A i \in 1..Len(log') : log'[i].ev # "overflow"

C5_AddAppendsAccepted == [][C5_AddStep]_vars

\* one add of the group itself and of a node it accepted
C5_Witness ==
  /\ call.op = "add"
  /\ Len(call.objs) = 2
  /\ Len(objects[call.g]) >= 2
  /\ call.objs[1] = call.g
  /\ Happened("added")

\* ------------------------------------------------------------------ C6
\* C6: remove returns exactly the listed nodes that were children; each of them
\* ends without group and canvas reference and outside the sequence; every
\* other listed node keeps its group reference; no other child sequence changes.
C6_Listed == IF call'.op = "removeAll" THEN objects[call'.g] ELSE call'.objs

C6_RemoveStep ==
  call'.op \in {"remove", "removeAll"}
  => /\ ret' = FirstOccurrences(C6_Listed, 1, Range(objects[call'.g]))
     /\ \A n \in Range(ret') :
          /\ group'[n] = None
          /\ canvas'[n] = None
          /\ \A i \in 1..Len(objects'[call'.g]) : objects'[call'.g][i] # n
     /\ \A n \in Range(C6_Listed) \ Range(objects[call'.g]) : group'[n] = group[n]
     /\ \A h \in Groups \ {call'.g} : objects'[h] = objects[h]

C6_RemoveReturnsChildren == [][C6_RemoveStep]_vars

\* a remove listed a child and a child of another group
C6_Witness ==
  /\ call.op = "remove"
  /\ ret # <<>>
  /\ \E n \in Range(call.objs) : group[n] # None /\ group[n] # call.g

\* ------------------------------------------------------------------ C7
\* C7: a layout request of a type other than initialization that reaches a
\* group whose first layout is not done returns at once: the group's size,
\* position and children's positions are as before, no layout notification is
\* emitted and the request is not passed on to a parent.
AutomaticTypes == {"added", "removed", "object_modified", "layout_change"}

IsCallOn(e, g, path) == e.ev = "layout_call" /\ e.g = g /\ e.path = path

C7_PreInitializationIgnored ==
  \A i \in 1..Len(log) :
    (/\ log[i].ev = "layout_call"
     /\ log[i].type # "initialization"
     /\ ~log[i].snap.firstLayoutDone)
    => /\ i < Len(log)
       /\ log[i + 1].ev = "rejected"
       /\ log[i + 1].g = log[i].g
       /\ log[i + 1].snap = log[i].snap
       /\ i + 1 < Len(log)
          => /\ log[i + 2].ev \notin {"onLayout", "layout"}
             /\ ~(/\ log[i + 2].ev = "layout_call"
                  /\ log[i + 2].path = Append(log[i].path, log[i].g))

\* a child's layout was passed on to a parent that is still under construction
C7_Witness ==
  \E i \in 1..Len(log) :
    /\ log[i].ev = "rejected"
    /\ log[i].path # <<>>
    /\ log[i].g = call.g
    /\ call.op = "construct"

\* ------------------------------------------------------------------ C8
\* C8: the constructor runs the initialization layout exactly once, after every
\* initial child has entered; on return the first-layout-done flag is set even
\* when the strategy gave no result, in which case the hook receives the
\* group's current center, width and height; the flag is never cleared.
C8_InitCalls ==
  {i \in 1..Len(log) : /\ log[i].ev = "layout_call"
                        /\ log[i].g = call.g
                        /\ log[i].type = "initialization"}

C8_Enters == {i \in 1..Len(log) : log[i].ev = "enter" /\ log[i].g = call.g}

C8_Constructed ==
  call.op = "construct"
  => /\ Cardinality(C8_InitCalls) = 1
     /\ Cardinality(C8_Enters) = Len(call.objs)
     /\ \A i \in C8_InitCalls :
          /\ \A j \in C8_Enters : j < i
          /\ log[i].path = <<>>
          /\ log[i].snap.synced
          /\ Range(log[i].snap.children) \subseteq Range(call.objs)
          /\ \E k \in (i + 1)..Len(log) :
               /\ log[k].ev = "onLayout"
               /\ log[k].g = call.g
               /\ log[k].type = "initialization"
               /\ ~log[k].result.ok
                  => /\ log[k].result.centerX = RelCenter(Cur, call.g).x
                     /\ log[k].result.centerY = RelCenter(Cur, call.g).y
                     /\ log[k].result.width = width[call.g]
                     /\ log[k].result.height = height[call.g]
     /\ firstLayoutDone[call.g]

C8_FlagKept ==
  \A g \in Groups : firstLayoutDone[g] => firstLayoutDone'[g]

C8_InitializationOnce == [](C8_Constructed) /\ [][C8_FlagKept]_vars

\* an empty group was constructed and its strategy gave no result
C8_Witness ==
  /\ call.op = "construct"
  /\ call.objs = <<>>
  /\ \E k \in 1..Len(log) : log[k].ev = "onLayout" /\ ~log[k].result.ok
  /\ ops >= 2

\* ------------------------------------------------------------------ C9
\* C9: when the strategy gives no result on a trigger other than the
\* initialization, the group's size, position and children's positions are as
\* before, no layout notification is emitted and the parent's layout procedure
\* is not invoked; fixed mode on an automatic trigger, clip-path mode without
\* a clip and fit-content without children on an automatic trigger are such
\* cases.
C9_Aborted ==
  \A i \in 1..Len(log) :
    log[i].ev = "no_result"
    => /\ log[i].type # "initialization"
       /\ i > 1
       /\ IsCallOn(log[i - 1], log[i].g, log[i].path)
       /\ log[i].snap = log[i - 1].snap
       /\ i = Len(log) => Snap(Cur, log[i].g) = log[i].snap
       /\ i < Len(log)
          => /\ log[i + 1].ev \notin {"onLayout", "layout"}
             /\ ~(/\ log[i + 1].ev = "layout_call"
                  /\ log[i + 1].path = Append(log[i].path, log[i].g))

C9_Cases ==
  \A i \in 1..Len(log) :
    (/\ log[i].ev = "layout_call"
     /\ log[i].snap.firstLayoutDone
     /\ \/ log[i].snap.layout = "fixed" /\ log[i].type \in AutomaticTypes
        \/ /\ log[i].snap.layout = "clip-path"
           /\ ~log[i].snap.hasClipPath
           /\ log[i].type # "initialization"
        \/ /\ log[i].snap.layout = "fit-content"
           /\ log[i].snap.children = <<>>
           /\ log[i].type \in AutomaticTypes)
    => /\ i < Len(log)
       /\ log[i + 1].ev = "no_result"

C9_NoResultNoChange == C9_Aborted /\ C9_Cases

\* a nested fixed group received a child and its layout gave no result
C9_Witness ==
  /\ call.op = "add"
  /\ group[call.g] # None
  /\ \E i \in 1..Len(log) :
       /\ log[i].ev = "no_result"
       /\ log[i].g = call.g
       /\ log[i].type = "added"
       /\ log[i].snap.layout = "fixed"
       /\ Len(log[i].snap.children) = 2

\* ------------------------------------------------------------------ C10
\* C10: a layout that completes on a group inside another group is passed on to
\* the parent right after the group's layout notification, with the group
\* appended to the context's path; so the procedure runs once on each level,
\* bottom-up, with the path of the levels below, and stops at the top.
Front(seq) == SubSeq(seq, 1, Len(seq) - 1)

C10_PassedOn ==
  \A i \in 1..Len(log) :
    (log[i].ev = "layout" /\ log[i].snap.group # None)
    => /\ i < Len(log)
       /\ IsCallOn(log[i + 1], log[i].snap.group, Append(log[i].path, log[i].g))
       /\ log[i + 1].type = log[i].type

C10_FromBelow ==
  \A i \in 1..Len(log) :
    (log[i].ev = "layout_call" /\ log[i].path # <<>>)
    => /\ i > 1
       /\ log[i - 1].ev = "layout"
       /\ log[i - 1].g = log[i].path[Len(log[i].path)]
       /\ log[i - 1].path = Front(log[i].path)
       /\ log[i - 1].snap.group = log[i].g
       /\ NoDup(Append(log[i].path, log[i].g))

C10_Stops ==
  \A i \in 1..Len(log) :
    /\ log[i].ev # "overflow"
    /\ (log[i].ev = "layout" /\ log[i].snap.group = None /\ i < Len(log))
       => ~(log[i + 1].ev = "layout_call" /\ log[i + 1].path # <<>>)

C10_PropagationBottomUp == C10_PassedOn /\ C10_FromBelow /\ C10_Stops

\* a layout of the innermost group reached the topmost group, every level with a result
C10_Witness ==
  \E i \in 1..Len(log) :
    /\ i + 1 <= Len(log)
    /\ IsCallOn(log[i], "g3", <<"g1", "g2">>)
    /\ log[i + 1].ev = "onLayout"
    /\ log[Len(log)].ev = "layout"
    /\ log[Len(log)].g = "g3"

\* ------------------------------------------------------------------ C11
\* C11: while a group is in fixed mode and its first layout is done, no add,
\* insertAt, remove, removeAll or 'modified' notification of a child changes
\* its width or height.
MembershipCalls == {"add", "insertAt", "remove", "removeAll"}

C11_Step ==
  \A g \in Groups :
    (/\ layout[g] = "fixed"
     /\ firstLayoutDone[g]
     /\ call'.op \in MembershipCalls \cup {"modify"})
    => /\ width'[g] = width[g]
       /\ height'[g] = height[g]

C11_FixedKeepsSize == [][C11_Step]_vars

\* a fixed group of declared size 24 x 24 received a second child whose corner
\* lies outside the declared box, and its layout gave no result
C11_Witness ==
  /\ call.op = "add"
  /\ layout[call.g] = "fixed"
  /\ width[call.g] = 24
  /\ Len(objects[call.g]) = 2
  /\ \E i \in 1..Len(log) :
       log[i].ev = "no_result" /\ log[i].g = call.g /\ log[i].type = "added"
  /\ \E n \in Range(objects[call.g]) :
       RelCenter(Cur, n).x + (width[n] \div 2) > 12

\* ------------------------------------------------------------------ C12
\* the least and the greatest element of a finite set of integers
SetMin(S) == CHOOSE m \in S : \A k \in S : m <= k
SetMax(S) == CHOOSE m \in S : \A k \in S : m >= k

\* the edges of the children of g in g's own plane, whose origin is g's center
ChildEdgesX(g) ==
  UNION { {RelCenter(Cur, n).x - (width[n] \div 2), RelCenter(Cur, n).x + (width[n] \div 2)} :
          n \in Range(objects[g]) }

ChildEdgesY(g) ==
  UNION { {RelCenter(Cur, n).y - (height[n] \div 2), RelCenter(Cur, n).y + (height[n] \div 2)} :
          n \in Range(objects[g]) }

\* g's width and height are the extent of the box of its children
TightSize(g) ==
  /\ width[g] = SetMax(ChildEdgesX(g)) - SetMin(ChildEdgesX(g))
  /\ height[g] = SetMax(ChildEdgesY(g)) - SetMin(ChildEdgesY(g))

\* g's center is the midpoint of the box of its children
CenteredOnChildren(g) ==
  /\ SetMin(ChildEdgesX(g)) + SetMax(ChildEdgesX(g)) = 0
  /\ SetMin(ChildEdgesY(g)) + SetMax(ChildEdgesY(g)) = 0

DeclaresSize(c) ==
  c.op = "construct" /\ (IsNum(c.options.width) \/ IsNum(c.options.height))

CanvasPosition(n) == AbsCenter(Cur, n)

\* the call made by this step is g.add(x) and x is accepted by g
AddsAccepted(g, x) ==
  /\ call'.op = "add"
  /\ call'.g = g
  /\ x \in Range(call'.objs)
  /\ x \in Acceptable(g)

C13_Step ==
  \A g \in Groups, x \in Nodes :
    AddsAccepted(g, x) => CanvasPosition(x)' = CanvasPosition(x)

\* C13: g.add(x) leaves every accepted node x where it was in the canvas
\* plane, whether x had no parent, belonged to an unrelated group, or belonged
\* to a group nested inside g.
C13_AddKeepsCanvasPosition == [][C13_Step]_vars

\* ------------------------------------------------------------------ C14
\* the call made by this step is g.remove(x) and x is a child of g
RemovesChild(g, x) ==
  /\ call'.op = "remove"
  /\ call'.g = g
  /\ x \in Range(call'.objs)
  /\ IsChild(x, g)

C14_Step ==
  \A g \in Groups, x \in Nodes :
    RemovesChild(g, x) => /\ group'[x] = None
                          /\ CanvasPosition(x)' = CanvasPosition(x)

\* C14: g.remove(x) leaves every removed node x, now a node of the canvas
\* plane, where it was in the canvas plane as a child of g, for g nested at
\* any depth.
C14_RemoveKeepsCanvasPosition == [][C14_Step]_vars

\* a node was removed from a group nested in another group, and its position
\* in the canvas plane differs from the one it had in the group's plane
C14_Witness ==
  /\ call.op = "remove"
  /\ group[call.g] # None
  /\ ret = <<"r2">>
  /\ group["r2"] = None
  /\ left["r2"] = 16
  /\ top["r2"] = 8

\* ------------------------------------------------------------------ C15
\* the last call was g.remove(x) on a fit-content group whose only child was x,
\* and the call made by this step is g.add(x)
AddsBack(g, x) ==
  /\ before.layout[g] = "fit-content"
  /\ before.objects[g] = <<x>>
  /\ call = Call("remove", g, <<x>>)
  /\ ret = <<x>>
  /\ call' = Call("add", g, <<x>>)

\* g has the width, height and center it had before the removal
Restored(g) ==
  /\ width'[g] = before.width[g]
  /\ height'[g] = before.height[g]
  /\ RelCenter(Cur, g)' = RelCenter(before, g)

C15_Step == \A g \in Groups, x \in Nodes : AddsBack(g, x) => Restored(g)

\* C15: for a fit-content group whose only child is x, remove(x) followed by
\* add(x) restores the group's width, height and center to the values they
\* had before the removal.
C15_RoundTripRestores == [][C15_Step]_vars

\* before the removal g had the width and height of x, and x was centered in g
FittedBefore(g, x) ==
  /\ before.width[g] = before.width[x]
  /\ before.height[g] = before.height[x]
  /\ RelCenter(before, x) = Zero

C15_FittedStep ==
  \A g \in Groups, x \in Nodes : (AddsBack(g, x) /\ FittedBefore(g, x)) => Restored(g)

\* C15 (amended): for a fit-content group whose only child is x and whose
\* width, height and center are those of x, remove(x) followed by add(x)
\* restores the group's width, height and center to the values they had before
\* the removal.
C15_FittedRoundTripRestores == [][C15_FittedStep]_vars

\* the second leaf, lying apart from the origin, was removed from the group
\* that held only it and added back
C15_Witness ==
  /\ call = Call("add", call.g, <<"r2">>)
  /\ before.call = Call("remove", call.g, <<"r2">>)
  /\ before.ret = <<"r2">>
  /\ objects[call.g] = <<"r2">>
  /\ layout[call.g] = "fit-content"
  /\ left[call.g] = 16
  /\ top[call.g] = 8
  /\ width[call.g] = 8
  /\ height[call.g] = 16

\* ------------------------------------------------------------------ C16
\* the subscriptions g holds on c for each of changed, modified, selected and
\* deselected; _watchObject handles the four events together
Subscriptions(g, c) == watch[g][c]

\* C16: after any sequence of constructor, add, remove and set('interactive')
\* calls, a group holds a subscription on a node for each of the four events
\* exactly when the node is its direct child and the group is interactive, and
\* it never holds more than one.
C16_SubscribedIffInteractiveChild ==
  \A g \in Groups, c \in Nodes :
    built[g] => /\ Subscriptions(g, c) <= 1
                /\ Subscriptions(g, c) = 1 <=> (IsChild(c, g) /\ interactive[g])

\* a group that was interactive and held a child was made interactive again
C16_Witness ==
  /\ call.op = "setInteractive"
  /\ before.interactive[call.g]
  /\ interactive[call.g]
  /\ \E c \in Nodes : /\ c \in Range(before.objects[call.g])
                       /\ IsChild(c, call.g)
                       /\ Subscriptions(call.g, c) = 1

\* ------------------------------------------------------------------ C17
\* C17: after g.remove(x) returns, x does not occur in g's active-object
\* list, whatever selected and deselected notifications, adds and removes
\* preceded the call.
C17_RemovedNotActive ==
  call.op = "remove"
  => \A x \in Range(call.objs) : ~Contains(activeObjects[call.g], x)

\* ------------------------------------------------------------------ C18
\* the parent of a node: its group, else its canvas
Parent(n) ==
  IF n = Canvas THEN None
  ELSE IF group[n] # None THEN group[n] ELSE canvas[n]

\* the topmost node of the tree of x
Top(x) == CHOOSE n \in {x} \cup Ancestors(x) : group[n] = None

\* everything above x: the groups around it and the canvas its tree lies on
Above(x) == Ancestors(x) \cup (IF canvas[Top(x)] # None THEN {canvas[Top(x)]} ELSE {})

\* the list starts at the parent of x and goes on from parent to parent
NearestFirst(x, list) ==
  /\ Len(list) > 0 => list[1] = Parent(x)
  /\ \A i \in 1..(Len(list) - 1) : list[i + 1] = Parent(list[i])

NotCanvas(a) == a # Canvas

\* C18: in every tree built by add and remove, x.isDescendantOf(t) is true
\* exactly when t occurs in x.getAncestors(); getAncestors lists the ancestors
\* from the nearest parent to the topmost one, and strict mode omits the canvas.
C18_DescendantIffAncestor ==
  \A x \in Nodes :
    /\ \A t \in Nodes \cup {Canvas} :
         isDescendantOf(Cur, x, t) <=> Contains(getAncestors(Cur, x, FALSE), t)
    /\ Range(getAncestors(Cur, x, FALSE)) = Above(x)
    /\ NearestFirst(x, getAncestors(Cur, x, FALSE))
    /\ getAncestors(Cur, x, TRUE) = SelectSeq(getAncestors(Cur, x, FALSE), NotCanvas)

\* a leaf in a group in a group on the canvas
C18_Witness ==
  /\ getAncestors(Cur, "r1", FALSE) = <<"g1", "g2", Canvas>>
  /\ getAncestors(Cur, "r1", TRUE) = <<"g1", "g2">>
  /\ isDescendantOf(Cur, "r1", "g2")
  /\ ~isDescendantOf(Cur, "g2", "r1")

\* ------------------------------------------------------------------ C19
\* a node followed by its ancestors
SelfChain(x, strict) == <<x>> \o getAncestors(Cur, x, strict)

Suffix(seq, k) == SubSeq(seq, Len(seq) - k + 1, Len(seq))
Prefix(seq, k) == SubSeq(seq, 1, k)
Shorter(a, b) == IF Len(a) < Len(b) THEN Len(a) ELSE Len(b)

\* the length of the longest common suffix of two sequences
CommonSuffixLen(a, b) ==
  CHOOSE k \in 0..Shorter(a, b) :
    /\ Suffix(a, k) = Suffix(b, k)
    /\ \A m \in (k + 1)..Shorter(a, b) : Suffix(a, m) # Suffix(b, m)

\* r splits the chains a of self and b of other at their longest common suffix
SplitsAtCommonSuffix(r, a, b) ==
  /\ r.common = Suffix(a, CommonSuffixLen(a, b))
  /\ r.fork = Prefix(a, Len(a) - CommonSuffixLen(a, b))
  /\ r.otherFork = Prefix(b, Len(b) - CommonSuffixLen(a, b))
  /\ Range(r.fork) \cap Range(r.otherFork) = {}
  /\ (Range(a) \cap Range(b) = {}) => r.common = <<>>

\* C19: for every pair of nodes of every tree, findCommonAncestors returns as
\* common the longest common suffix of the two self-inclusive ancestor chains
\* (the whole chain when self is other, nothing for disjoint trees) and as fork
\* and otherFork the remaining prefixes of the two chains, which share no
\* element.
C19_CommonIsLongestCommonSuffix ==
  \A x \in Nodes, y \in Nodes, strict \in BOOLEAN :
    SplitsAtCommonSuffix(findCommonAncestors(Cur, x, y, strict),
                         SelfChain(x, strict), SelfChain(y, strict))

\* two leaves in two groups of one group: both forks and the common part are
\* not empty; and a top group without ancestors compared with its grandchild
C19_Witness ==
  /\ findCommonAncestors(Cur, "r1", "r2", TRUE) =
       Comparison(<<"r1", "g1">>, <<"r2", "g2">>, <<"g3">>)
  /\ findCommonAncestors(Cur, "g3", "r1", TRUE) =
       Comparison(<<>>, <<"r1", "g1">>, <<"g3">>)

\* ------------------------------------------------------------------ C20
\* a and b have a node or the canvas in common on their self-inclusive chains
SharesAncestor(a, b) == Range(SelfChain(a, FALSE)) \cap Range(SelfChain(b, FALSE)) # {}

\* C20: a.isInFrontOf(b) is undefined exactly when a is b or the two share no
\* ancestor, and then it is undefined in both directions; for every other
\* pair it is a boolean and exactly one of a.isInFrontOf(b) and
\* b.isInFrontOf(a) is true.
C20_InFrontIsAntisymmetric ==
  \A a \in Existing, b \in Existing :
    IF a = b \/ ~SharesAncestor(a, b)
    THEN /\ isInFrontOf(Cur, a, b) = Undefined
         /\ isInFrontOf(Cur, b, a) = Undefined
    ELSE {isInFrontOf(Cur, a, b), isInFrontOf(Cur, b, a)} = {Bool(TRUE), Bool(FALSE)}

\* a leaf in a group on the canvas and a leaf added to the canvas after the
\* group: the two leaves share only the canvas, the first leaf is inside the group
C20_Witness ==
  /\ objects["g1"] = <<"r1">>
  /\ canvasObjects = <<"g1", "r2">>
  /\ isInFrontOf(Cur, "r2", "r1") = Bool(TRUE)
  /\ isInFrontOf(Cur, "r1", "r2") = Bool(FALSE)
  /\ isInFrontOf(Cur, "r1", "g1") = Bool(TRUE)
  /\ isInFrontOf(Cur, "g1", "r1") = Bool(FALSE)

\* ------------------------------------------------------------------ C21
\* the nearest node, or the canvas, that lies on the chains of both a and b
NearestCommon(a, b) ==
  LET chain == SelfChain(a, FALSE)
  IN  chain[CHOOSE i \in 1..Len(chain) :
              /\ Contains(SelfChain(b, FALSE), chain[i])
              /\ \A k \in 1..(i - 1) : ~Contains(SelfChain(b, FALSE), chain[k])]

\* the child of c on the path from c down to x
ChildToward(c, x) == CHOOSE n \in Range(SelfChain(x, FALSE)) : Parent(n) = c

\* a and b lie in different branches: neither is on the chain of the other
DifferentBranches(a, b) ==
  /\ a # b
  /\ SharesAncestor(a, b)
  /\ NearestCommon(a, b) \notin {a, b}

\* the position of the branch of x in the child sequence of c
BranchIndex(c, x) == IndexOf(childList(Cur, c), ChildToward(c, x))

\* C21: for two nodes in different branches under their nearest common
\* ancestor c, a.isInFrontOf(b) is true exactly when the child of c on the
\* path to a has a higher index in the child sequence of c than the child of c
\* on the path to b; of two siblings the one inserted later is in front of the
\* other and the earlier one is not in front of the later one.
C21_HigherIndexInFront ==
  /\ \A a \in Existing, b \in Existing :
       DifferentBranches(a, b) =>
         isInFrontOf(Cur, a, b) =
           Bool(BranchIndex(NearestCommon(a, b), a) > BranchIndex(NearestCommon(a, b), b))
  /\ \A g \in Groups : \A i \in 1..Len(objects[g]), j \in 1..Len(objects[g]) :
       (i < j /\ IsChild(objects[g][i], g) /\ IsChild(objects[g][j], g))
         => /\ isInFrontOf(Cur, objects[g][j], objects[g][i]) = Bool(TRUE)
            /\ isInFrontOf(Cur, objects[g][i], objects[g][j]) = Bool(FALSE)

\* two leaves in two groups of one group, the group of r2 listed after the
\* group of r1; and two sibling leaves
C21_Witness ==
  \/ /\ objects["g3"] = <<"g1", "g2">>
     /\ objects["g1"] = <<"r1">>
     /\ objects["g2"] = <<"r2">>
     /\ isInFrontOf(Cur, "r2", "r1") = Bool(TRUE)
     /\ isInFrontOf(Cur, "r1", "g2") = Bool(FALSE)
  \/ /\ objects["g1"] = <<"r1", "r2">>
     /\ isInFrontOf(Cur, "r2", "r1") = Bool(TRUE)
     /\ isInFrontOf(Cur, "r1", "r2") = Bool(FALSE)

\* ------------------------------------------------------------------ C22
\* C22: when a is nested at any depth inside group b, a.isInFrontOf(b) is true
\* and b.isInFrontOf(a) is false, whether or not the tree lies on a canvas.
C22_NestedInFrontOfContainer ==
  \A a \in Existing : \A b \in Ancestors(a) :
    /\ isInFrontOf(Cur, a, b) = Bool(TRUE)
    /\ isInFrontOf(Cur, b, a) = Bool(FALSE)

\* a leaf two levels below a group that lies on no canvas
C22_Witness ==
  /\ /\ objects["g2"] = <<"g1">>
     /\ objects["g1"] = <<"r1">>
     /\ canvas["g2"] = None
     /\ isInFrontOf(Cur, "r1", "g2") = Bool(TRUE)
     /\ isInFrontOf(Cur, "g2", "r1") = Bool(FALSE)

\* ------------------------------------------------------------------ C23
\* the dispose calls that the dispose of g made on c
DisposedBy(g, c) == {i \in 1..Len(log) : log[i].ev = "dispose" /\ log[i].g = g /\ log[i].n = c}

\* C23: when g.dispose() returns, g's active-object list is empty, g holds no
\* subscription for changed, modified, selected or deselected on any of its
\* children, whatever its interactive flag and whatever was subscribed
\* before, and dispose was invoked on every child.
C23_DisposeReleases ==
  call.op = "dispose"
  => /\ activeObjects[call.g] = <<>>
     /\ \A c \in Range(objects[call.g]) :
          /\ Subscriptions(call.g, c) = 0
          /\ Cardinality(DisposedBy(call.g, c)) = 1

\* an interactive group that held a selected child and its subscriptions is
\* disposed
C23_Witness ==
  /\ call.op = "dispose"
  /\ before.interactive[call.g]
  /\ before.call.op = "selected"
  /\ before.objects[call.g] # <<>>
  /\ before.call.objs[1] \in Range(objects[call.g])
  /\ activeObjects[call.g] = <<>>

\* ------------------------------------------------------------------ C24
\* the nodes of a list of records, in order
NodesOf(records) == [i \in 1..Len(records) |-> records[i].node]

\* the nodes of a child sequence that are not flagged, in order
Unflagged(children, flagged) == SelectSeq(children, LAMBDA c : ~flagged[c])

\* C24: toObject returns an objects list with one record per child that is
\* not flagged excludeFromExport, in the order of the child sequence, and no
\* record for a flagged child; every node's includeDefaultValues setting is
\* the same after the call as before it.
C24_Step ==
  call'.op = "toObject"
  => /\ NodesOf(ret'[1].objects) = Unflagged(objects'[call'.g], excludeFromExport')
     /\ includeDefaultValues' = includeDefaultValues

C24_ExportsUnflaggedChildren == [][C24_Step]_vars

\* a group with a flagged child and an unflagged child whose setting differs
\* from the group's was serialized
C24_Witness ==
  /\ call.op = "toObject"
  /\ \E c \in Range(objects[call.g]) : excludeFromExport[c]
  /\ \E c \in Range(objects[call.g]) :
       /\ ~excludeFromExport[c]
       /\ includeDefaultValues[c] # includeDefaultValues[call.g]
       /\ \E i \in 1..Len(ret[1].objects) :
            /\ ret[1].objects[i].node = c
            /\ ret[1].objects[i].includeDefaultValues = includeDefaultValues[call.g]

\* ------------------------------------------------------------------ C25
\* the runs of the layout procedure in the last call that applied a result:
\* the log positions of the entry into the procedure and of its notification
LayoutRuns ==
  {r \in (1..Len(log)) \X (1..Len(log)) :
     /\ r[1] < r[2]
     /\ log[r[1]].ev = "layout_call"
     /\ log[r[2]].ev = "layout"
     /\ log[r[2]].g = log[r[1]].g
     /\ log[r[2]].path = log[r[1]].path
     /\ \A k \in (r[1] + 1)..(r[2] - 1) :
          ~(log[k].g = log[r[1]].g /\ log[k].ev \in {"layout_call", "layout", "no_result", "rejected"})}

\* the center of a group in its parent plane at a logged moment
SnapCenter(g, snap) ==
  Pt(NSub(snap.left, NHalf(NMul(origin[g], snap.width))),
     NSub(snap.top, NHalf(NMul(origin[g], snap.height))))

\* a run after initialization whose result carries no correction terms
PlainRun(r) ==
  /\ log[r[2]].type # "initialization"
  /\ log[r[2]].result.ok
  /\ OrZero(log[r[2]].result.correctionX) = 0
  /\ OrZero(log[r[2]].result.correctionY) = 0

NewCenter(r) == Pt(log[r[2]].result.centerX, log[r[2]].result.centerY)

\* C25: a layout run after initialization that produces a result without
\* correction terms leaves every child of the group where it was in the plane
\* of the group's parent (hence on the canvas): the group is centered on the
\* new center and the left/top of each child is shifted by the old center
\* minus the new center.
C25_LayoutKeepsChildren ==
  \A r \in LayoutRuns :
    PlainRun(r) =>
      LET g == log[r[1]].g
          old == log[r[1]].snap
          new == log[r[2]].snap
      IN /\ new.children = old.children
         /\ SnapCenter(g, new) = NewCenter(r)
         /\ \A i \in 1..Len(old.children) :
              /\ new.positions[i] = PAdd(old.positions[i], PSub(SnapCenter(g, old), NewCenter(r)))
              /\ PAdd(SnapCenter(g, new), new.positions[i])
                   = PAdd(SnapCenter(g, old), old.positions[i])

\* ------------------------------------------------------------------ C26
\* the layout notifications of the last call that follow an applied result
Applied == {i \in 1..Len(log) : log[i].ev = "layout" /\ log[i].result.ok}

\* C26: whenever a layout result is applied to a group without children, its
\* centerX, centerY, width and height are defined numbers; this covers
\* triggerLayout with a partial result supplied by the caller and the
\* initialization of an empty group in svg mode and in clip-path mode.
C26_EmptyGroupResultDefined ==
  \A i \in Applied :
    log[i].snap.children = <<>>
    => /\ IsNum(log[i].result.centerX)
       /\ IsNum(log[i].result.centerY)
       /\ IsNum(log[i].result.width)
       /\ IsNum(log[i].result.height)

\* ------------------------------------------------------------------ C27
\* width, height and center of g and the positions of its children
Geometry(s, g) ==
  [width |-> s.width[g], height |-> s.height[g], center |-> RelCenter(s, g),
   positions |-> [i \in 1..Len(s.objects[g]) |->
                    Pt(s.left[s.objects[g][i]], s.top[s.objects[g][i]])]]

\* the scene of the call in the state s, had g been a fit-content group
AsFitContent(s, g) == [s EXCEPT !.layout[g] = "fit-content"]

\* C27: an add call on a fit-content-lazy group, wherever the group lies in
\* its parent plane, leaves it with the width, height and center that the
\* same call gives the same group with the same children in fit-content mode.
C27_Step ==
  (call'.op = "add" /\ layout[call'.g] = "fit-content-lazy")
  => Geometry(Cur', call'.g) = Geometry(add(AsFitContent(Cur, call'.g), call'.g, call'.objs), call'.g)

C27_LazyEqualsFitContent == [][C27_Step]_vars

\* ------------------------------------------------------------------ C28
\* the call about to be made passes nodes and the group accepts none of them
AllRejected(c) == c.objs # <<>> /\ Range(c.objs) \cap Acceptable(c.g) = {}

\* C28: an add or insertAt call in which every passed node is rejected has no
\* effect in any layout mode: the child sequence of the group, its width,
\* height and position and the positions of its children stay as they were,
\* and no layout notification is emitted.
C28_Step ==
  (call'.op \in Entering /\ AllRejected(call'))
  => /\ objects' = objects
     /\ width' = width /\ height' = height
     /\ left' = left /\ top' = top
     /\ \A i \in 1..Len(log') : log'[i].ev # "layout"

C28_RejectedCallHasNoEffect == [][C28_Step]_vars

\* ------------------------------------------------------------------ C29
\* the entries of a log at which the layout procedure of g was entered with a type
RunsOf(l, g, type) ==
  {i \in 1..Len(l) : l[i].ev = "layout_call" /\ l[i].g = g /\ l[i].type = type}

\* before entry i of the log, n got the notification kind from g
NotifiedBefore(l, i, kind, g, n) ==
  \E j \in 1..(i - 1) : l[j].ev = kind /\ l[j].g = g /\ l[j].n = n

\* the layout procedure of g ran once with the type, called by g itself, with
\* exactly the targets, after each target got the notification kind from g
RanOnceAfter(l, g, type, targets, kind) ==
  /\ Cardinality(RunsOf(l, g, type)) = 1
  /\ \A i \in RunsOf(l, g, type) :
       /\ l[i].targets = targets
       /\ l[i].path = <<>>
       /\ \A k \in 1..Len(targets) : NotifiedBefore(l, i, kind, g, targets[k])

\* C29: each add call runs the layout procedure of the group with type added
\* exactly once, after every accepted node has entered the group and got its
\* added notification, with exactly the accepted nodes as targets; each remove
\* call runs it with type removed exactly once, after every removed node has
\* exited, with exactly the removed nodes as targets.
C29_Step ==
  /\ call'.op = "add"
     => /\ RanOnceAfter(log', call'.g, "added",
                        FirstOccurrences(call'.objs, 1, Acceptable(call'.g)), "added")
        /\ \A i \in RunsOf(log', call'.g, "added") :
             \A x \in Range(log'[i].targets) :
               /\ NotifiedBefore(log', i, "enter", call'.g, x)
               /\ x \in Range(log'[i].snap.children)
  /\ call'.op = "remove"
     => /\ RanOnceAfter(log', call'.g, "removed",
                        FirstOccurrences(call'.objs, 1, Range(objects[call'.g])), "removed")
        /\ \A i \in RunsOf(log', call'.g, "removed") :
             \A x \in Range(log'[i].targets) : x \notin Range(log'[i].snap.children)

C29_LayoutOncePerCall == [][C29_Step]_vars

\* an add of two nodes, the first of which was taken out of another group,
\* whose own layout procedure ran with type removed before
C29_Witness ==
  /\ call.op = "add"
  /\ Len(call.objs) = 2
  /\ \E i \in RunsOf(log, call.g, "added") :
       /\ log[i].targets = call.objs
       /\ \E h \in Groups \ {call.g} :
            /\ before.group[call.objs[1]] = h
            /\ \E j \in RunsOf(log, h, "removed") : j < i

\* ------------------------------------------------------------------ C30
\* the moments of the last call at which the layout procedure of a group went
\* past its initialization guard, and at which it emitted its notification
LayoutMoments ==
  {i \in 1..Len(log) :
     \/ log[i].ev = "layout"
     \/ /\ log[i].ev = "layout_call"
        /\ ~(i < Len(log) /\ log[i + 1].ev = "rejected")}

\* C30: whenever the layout procedure of a group runs and whenever it emits a
\* layout notification, for any trigger and also re-entrantly while a node is
\* moved from one group to another, every node of the child sequence of that
\* group refers to the group as its group.
C30_ChildrenSyncedAtLayout ==
  \A i \in LayoutMoments : log[i].snap.synced

\* ------------------------------------------------------------------ C31
\* the root of the tree of x: the canvas its top node lies on, else its top node
Root(x) == SelfChain(x, FALSE)[Len(SelfChain(x, FALSE))]

\* the last position at which x is drawn in a render pass, 0 if it is not drawn
LastDraw(pass, x) ==
  IF \E i \in 1..Len(pass) : pass[i] = x
  THEN CHOOSE i \in 1..Len(pass) : pass[i] = x /\ \A j \in (i + 1)..Len(pass) : pass[j] # x
  ELSE 0

\* a is drawn after b when the tree of a is rendered
DrawnAfter(a, b) ==
  LastDraw(renderAll(Cur, Root(a)), a) > LastDraw(renderAll(Cur, Root(a)), b)

InFront(a, b) == isInFrontOf(Cur, a, b) = Bool(TRUE)

====
